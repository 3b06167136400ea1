---------------------------- MODULE PoolSession ----------------------------
(***************************************************************************)
(* The pool session of pool_connection.rs: one shared stream, used by the  *)
(* receiver thread (receiver_loop, reconnect, relogin_as, login) and by    *)
(* the mining workers (submit_share), and the pool at its other end.       *)
(*                                                                         *)
(* A step is what a thread does between two points where another thread    *)
(* can see or change the shared state: taking the stream lock, an atomic   *)
(* load or store, a short mutex.  A connection is named by the value       *)
(* `generation` took when connect() installed it, a job by the generation  *)
(* it is stamped with, a session id by the connection whose login reply    *)
(* carried it.  Time is left out: a timer may or may not have run out      *)
(* whenever it is looked at.                                               *)
(***************************************************************************)
EXTENDS Naturals, Sequences, FiniteSets

CONSTANTS Workers,        \* mining threads
          Shares,         \* shares they find, each found once
          Beneficiaries,  \* wallets of the donation schedule
          User,           \* the wallet of the first login
          NoWallet,       \* the empty wallet string
          MaxGeneration,  \* bound: TCP connections made
          MaxRequestId,   \* bound: no keepalive is due past this request id
          MaxInbox        \* bound: unread lines the pool leaves on the wire

ASSUME SessionAssumption ==
    /\ User \in Beneficiaries
    /\ NoWallet \notin Beneficiaries
    /\ IsFiniteSet(Workers) /\ {"free", "receiver"} \cap Workers = {}
    /\ 0 \notin Shares
    /\ MaxGeneration \in Nat
    /\ MaxRequestId \in Nat
    /\ MaxInbox \in Nat

VARIABLES
    \* struct PoolConnection
    lock,              \* a thread inside a `stream` critical section, or "free"
    stream,            \* the live connection, NoStream for None
    generation,        \* connections installed so far
    current_job,       \* the generation stamp of the current job, or NoJob
    session_id,        \* the connection whose login reply last set it
    request_id,        \* next JSON-RPC id
    wallet,            \* wallet of the last login
    user_wallet,       \* wallet of the first login
    pending_shares,    \* written, unanswered submissions
    submits_in_flight, \* submit_share calls executing
    rotation_wait,     \* beneficiary of a deferred rotation, or NoWallet
    counter,           \* the four u32 counters, by the share they counted
    \* locals of the receiver thread
    rx, caller, active, want, gate, draining, lines, tail,
    \* locals of the workers
    wk, hand, shares_found,
    \* the pool: requests that reached it, lines under way, logged-in wallet
    received, inbox, account

connVars == <<lock, stream, generation, current_job, session_id, wallet,
              user_wallet>>
shareVars == <<request_id, pending_shares, submits_in_flight, counter>>
rotationVars == <<rotation_wait, active, want, gate>>
readVars == <<lines, tail>>
workerVars == <<wk, hand, shares_found>>
poolVars == <<received, inbox, account>>
vars == <<connVars, shareVars, rotationVars, readVars, workerVars, poolVars,
          rx, caller, draining>>

-----------------------------------------------------------------------------
NoStream == 0
NoJob == 0
NoShare == 0
Receiver == "receiver"

Fates == {"accepted", "rejected", "lost", "unsent"}
Generations == 0 .. MaxGeneration

(* A found share on its way through submit_share: the generation of the    *)
(* job it was hashed on, the session id and the request id it is given.    *)
Submission == [share : Shares, job : Generations, sid : Generations, id : Nat]

(* A request at the pool: a submission and the connection it came in on, *)
(* or a keepalive (share = NoShare).                                       *)
Request == [share : Shares \cup {NoShare}, job : Generations,
            sid : Generations, id : Nat, gen : Generations,
            answer : {"none", "OK", "error", "KEEPALIVED"}]

(* A line from the pool.  `id` is 0 when the message has a method or no    *)
(* numeric id; `job` says whether it carries a job and whether it parses.  *)
Line == [job : {"none", "good", "bad"}, id : Nat,
         status : {"none", "OK", "error", "KEEPALIVED"}]

(* The locals of rotation_settled, when it is not running. *)
NoGate == [in_flight |-> 0, early |-> {}, settled |-> FALSE]

Idle == [share |-> NoShare, job |-> NoJob, sid |-> 0, id |-> 0]

(* beneficiary_address: the user's wallet is the one captured at the first *)
(* login, the others are fixed.                                            *)
beneficiary_address(b) == IF b = User THEN user_wallet ELSE b

Count(fate, s) == [counter EXCEPT ![fate][s] = @ + 1]

rxLabels == {"connect", "send_login", "login_reply", "set_session",
             "set_job", "clear_stream", "top", "settle_1", "settle_2",
             "clear_job", "drop_stream", "drain", "drain_each", "read",
             "handle", "keepalive", "silence", "exited"}
wkLabels == {"mine", "enter", "build", "write", "register", "unsent", "leave"}
(* What connect() and login() were called for: the caller decides what     *)
(* happens after them.                                                     *)
Callers == {"none", "startup", "relogin", "reconnect_read", "reconnect_keepalive",
            "reconnect_silence"}

Init ==
    /\ lock = "free" /\ stream = NoStream /\ generation = 0
    /\ current_job = NoJob /\ session_id = 0
    /\ wallet = NoWallet /\ user_wallet = NoWallet
    /\ request_id = 1 /\ pending_shares = {} /\ submits_in_flight = 0
    /\ counter = [f \in Fates |-> [s \in Shares |-> 0]]
    /\ rotation_wait = NoWallet
    /\ active = User /\ want = User /\ gate = NoGate
    /\ lines = <<>> /\ tail = NoStream
    /\ wk = [w \in Workers |-> "mine"]
    /\ hand = [w \in Workers |-> Idle] /\ shares_found = {}
    /\ received = {} /\ inbox = <<>> /\ account = NoWallet
    /\ rx = "connect" /\ caller = "startup" /\ draining = {}
-----------------------------------------------------------------------------
(***************************************************************************)
(* connect() and login(), run by the main thread at startup and by the     *)
(* receiver in reconnect() and relogin_as().                               *)
(***************************************************************************)

(* The wallet string login() is called with. *)
LoginWallet == IF caller = "startup" THEN User ELSE wallet

(* Faulty variant: every login overwrites the user's wallet. *)
OverwrittenUserWallet == LoginWallet

CapturedUserWallet == IF user_wallet = NoWallet THEN LoginWallet
                                                ELSE user_wallet

(* The socket opens: the stream is installed and the generation bumped in  *)
(* one critical section.                                                   *)
Connect ==
    /\ rx = "connect" /\ lock = "free" /\ generation < MaxGeneration
    /\ stream' = generation + 1
    /\ generation' = generation + 1
    /\ rx' = "send_login"
    /\ UNCHANGED <<lock, current_job, session_id, wallet, user_wallet,
                   shareVars, rotationVars, readVars, workerVars, poolVars,
                   caller, draining>>

(* connect() fails before it installs anything. *)
ConnectFails ==
    /\ rx = "connect"
    /\ rx' = "clear_stream"
    /\ UNCHANGED <<connVars, shareVars, rotationVars, readVars, workerVars,
                   poolVars, caller, draining>>

(* login() records the wallet, and the user's wallet if none is recorded   *)
(* yet; send_request takes the lock and writes.                            *)
SendLogin ==
    /\ rx = "send_login" /\ lock = "free"
    /\ lock' = Receiver
    /\ wallet' = LoginWallet
    /\ user_wallet' = CapturedUserWallet
    /\ request_id' = request_id + 1
    /\ rx' = "login_reply"
    /\ UNCHANGED <<stream, generation, current_job, session_id,
                   pending_shares, submits_in_flight, counter, rotationVars,
                   readVars, workerVars, poolVars, caller, draining>>

(* The reply carries a session id and no error: the lock is released, the  *)
(* pool now credits this connection to the login's wallet.                 *)
LoginAccepted ==
    /\ rx = "login_reply"
    /\ lock' = "free"
    /\ account' = wallet
    /\ rx' = "set_session"
    /\ UNCHANGED <<stream, generation, current_job, session_id, wallet,
                   user_wallet, shareVars, rotationVars, readVars, workerVars,
                   received, inbox, caller, draining>>

(* Write error, read error, timeout, a closed socket, an error reply or a  *)
(* reply with no session id.                                               *)
LoginFails ==
    /\ rx = "login_reply"
    /\ lock' = "free"
    /\ rx' = "clear_stream"
    /\ UNCHANGED <<stream, generation, current_job, session_id, wallet,
                   user_wallet, shareVars, rotationVars, readVars, workerVars,
                   poolVars, caller, draining>>

SetSession ==
    /\ rx = "set_session"
    /\ session_id' = generation
    /\ rx' = "set_job"
    /\ UNCHANGED <<lock, stream, generation, current_job, wallet, user_wallet,
                   shareVars, rotationVars, readVars, workerVars, poolVars,
                   caller, draining>>

(* Where the receiver goes on once login() succeeded: start_receiver or    *)
(* the statement after the call.                                           *)
AfterLogin == IF caller = "reconnect_read" THEN "keepalive" ELSE "top"

(* Faulty variant: a rotation keeps the old connection's bytes. *)
BufferKeptByRelogin == IF caller = "relogin" THEN tail ELSE NoStream

(* The caller clears its receive buffer after every login. *)
BufferAfterLogin == NoStream

(* The login reply's job, if it carries one that parses, is stamped and    *)
(* installed.                                                              *)
SetJob ==
    /\ rx = "set_job"
    /\ current_job' \in {current_job, generation}
    /\ tail' = BufferAfterLogin
    /\ rx' = AfterLogin
    /\ caller' = "none"
    /\ UNCHANGED <<lock, stream, generation, session_id, wallet, user_wallet,
                   shareVars, rotationVars, lines, workerVars, poolVars,
                   draining>>

(* A failed attempt drops the stream: relogin_as() returns to the read,    *)
(* reconnect() retries, and initialize() gives up, which ends the process. *)
ClearStream ==
    /\ rx = "clear_stream" /\ lock = "free"
    /\ stream' = NoStream
    /\ inbox' = <<>> /\ account' = NoWallet
    /\ rx' = CASE caller = "startup" -> "exited"
               [] caller = "relogin" -> "read"
               [] OTHER -> "connect"
    /\ UNCHANGED <<lock, generation, current_job, session_id, wallet,
                   user_wallet, shareVars, rotationVars, readVars, workerVars,
                   received, caller, draining>>
-----------------------------------------------------------------------------
(***************************************************************************)
(* receiver_loop: one iteration, from `top` to `top`.                      *)
(***************************************************************************)

(* The schedule names a beneficiary; note_donation_target discards a       *)
(* deferral recorded before the last change of it (last_want, here the     *)
(* value `want` still has from the previous iteration).                    *)
LoopTop ==
    /\ rx = "top"
    /\ want' \in Beneficiaries
    /\ rotation_wait' = IF want' = want THEN rotation_wait ELSE NoWallet
    /\ rx' = IF want' = active THEN "read" ELSE "settle_1"
    /\ UNCHANGED <<connVars, shareVars, active, gate, readVars, workerVars,
                   poolVars, caller, draining>>

(* The shares inside submit_share or awaiting a reply. *)
Outstanding == {hand[w].share : w \in {v \in Workers : wk[v] \notin {"mine", "enter"}}}
               \cup {p.share : p \in pending_shares}

(* Faulty variant: pending_shares is read before submits_in_flight. *)
GateReadSwapped(nth) == IF nth = 1 THEN Cardinality(pending_shares)
                                   ELSE submits_in_flight

(* The two reads of rotation_settled, in order. *)
GateRead(nth) == IF nth = 1 THEN submits_in_flight
                            ELSE Cardinality(pending_shares)

(* rotation_settled, first read.  gate.early remembers, for the properties *)
(* only, what was outstanding at that moment.                              *)
SettleFirstRead ==
    /\ rx = "settle_1"
    /\ rotation_wait' = IF rotation_wait = want THEN want ELSE NoWallet
    /\ gate' = [in_flight |-> GateRead(1), early |-> Outstanding,
                settled |-> FALSE]
    /\ rx' = "settle_2"
    /\ UNCHANGED <<connVars, shareVars, active, want, readVars,
                   workerVars, poolVars, caller, draining>>

NothingOutstanding == gate.in_flight = 0 /\ GateRead(2) = 0

(* rotation_settled, second read and the decision: nothing outstanding, or *)
(* a deferral on record that has reached its limit.  The loop switches     *)
(* wallets and calls relogin_as().                                         *)
RotationProceeds ==
    /\ rx = "settle_2"
    /\ NothingOutstanding \/ rotation_wait # NoWallet
    /\ rotation_wait' = NoWallet
    /\ gate' = [gate EXCEPT !.settled = NothingOutstanding]
    /\ active' = want
    /\ wallet' = beneficiary_address(want)
    /\ caller' = "relogin"
    /\ rx' = "clear_job"
    /\ UNCHANGED <<lock, stream, generation, current_job, session_id,
                   user_wallet, shareVars, want, readVars,
                   workerVars, poolVars, draining>>

RotationDeferred ==
    /\ rx = "settle_2"
    /\ ~NothingOutstanding
    /\ rotation_wait' = want
    /\ gate' = NoGate
    /\ rx' = "read"
    /\ UNCHANGED <<connVars, shareVars, active, want, readVars, workerVars, poolVars, caller, draining>>

(* Faulty variant: relogin_as() leaves the job to the workers. *)
JobKeptByRelogin == IF caller = "relogin" THEN current_job ELSE NoJob

JobAfterTearDown == NoJob

(* reconnect() and relogin_as() begin alike: clear the job, drop the       *)
(* stream, count what was pending as lost.                                 *)
ClearJob ==
    /\ rx = "clear_job"
    /\ current_job' = JobAfterTearDown
    /\ rx' = "drop_stream"
    /\ UNCHANGED <<lock, stream, generation, session_id, wallet, user_wallet,
                   shareVars, rotationVars, readVars, workerVars, poolVars,
                   caller, draining>>

(* Only reconnect() discards a deferral of the ended connection. *)
DropStream ==
    /\ rx = "drop_stream" /\ lock = "free"
    /\ stream' = NoStream
    /\ inbox' = <<>> /\ account' = NoWallet
    /\ rotation_wait' = IF caller = "relogin" THEN rotation_wait ELSE NoWallet
    /\ rx' = "drain"
    /\ UNCHANGED <<lock, generation, current_job, session_id, wallet,
                   user_wallet, shareVars, active, want, gate,
                   readVars, workerVars, received, caller, draining>>

(* Faulty variant: only reconnect() drains. *)
NotDrainedByRelogin == IF caller = "relogin" THEN {} ELSE pending_shares

Drained == pending_shares

(* drain_pending_shares: the map is emptied under its mutex, the counter   *)
(* is bumped once per entry afterwards.                                    *)
Drain ==
    /\ rx = "drain"
    /\ draining' = Drained
    /\ pending_shares' = pending_shares \ Drained
    /\ gate' = NoGate
    /\ rx' = "drain_each"
    /\ UNCHANGED <<connVars, request_id, submits_in_flight, counter,
                   rotation_wait, active, want, readVars, workerVars,
                   poolVars, caller>>

DrainEach ==
    /\ rx = "drain_each"
    /\ \E p \in draining :
        /\ counter' = Count("lost", p.share)
        /\ draining' = draining \ {p}
    /\ UNCHANGED <<connVars, request_id, pending_shares, submits_in_flight,
                   rotationVars, readVars, workerVars, poolVars, rx, caller>>

DrainDone ==
    /\ rx = "drain_each" /\ draining = {}
    /\ rx' = "connect"
    /\ UNCHANGED <<connVars, shareVars, rotationVars, readVars, workerVars,
                   poolVars, caller, draining>>

(* One read under the stream lock.  It may end inside a line: `tail` is    *)
(* the connection whose unfinished line stays in the buffer.               *)
ReadData ==
    /\ rx = "read" /\ lock = "free" /\ stream # NoStream /\ inbox # <<>>
    /\ \E n \in 0 .. Len(inbox) :
        /\ lines' = SubSeq(inbox, 1, n)
        /\ inbox' = SubSeq(inbox, n + 1, Len(inbox))
        /\ tail' \in (IF n = Len(inbox) THEN {NoStream}
                      ELSE IF n = 0 THEN {stream} ELSE {NoStream, stream})
    /\ rx' = IF lines' = <<>> THEN "keepalive" ELSE "handle"
    /\ UNCHANGED <<connVars, shareVars, rotationVars, workerVars, received,
                   account, caller, draining>>

ReadTimesOut ==
    /\ rx = "read" /\ lock = "free" /\ stream # NoStream
    /\ rx' = "keepalive"
    /\ UNCHANGED <<connVars, shareVars, rotationVars, readVars, workerVars,
                   poolVars, caller, draining>>

(* Closed by the pool, a read error, or no stream after a failed rotation. *)
ReadFails ==
    /\ rx = "read" /\ lock = "free"
    /\ caller' = "reconnect_read"
    /\ rx' = "clear_job"
    /\ UNCHANGED <<connVars, shareVars, rotationVars, readVars, workerVars,
                   poolVars, draining>>

(* take_complete_lines finds an overlong unfinished line: the buffer and   *)
(* the complete lines before it are discarded.                             *)
ReadOverflows ==
    /\ rx = "read" /\ lock = "free" /\ stream # NoStream
    /\ tail' = NoStream
    /\ caller' = "reconnect_read"
    /\ rx' = "clear_job"
    /\ UNCHANGED <<connVars, shareVars, rotationVars, lines, workerVars,
                   poolVars, draining>>

(* Faulty variant: any reply with an id is a share's (before #17). *)
AnyPending(id) == IF id = 0 THEN {} ELSE pending_shares

(* The submissions a reply's id pairs with. *)
PendingWith(id) == {p \in pending_shares : p.id = id}

(* handle_pool_message on one line: install a job that parses, then pair a *)
(* numeric id with a pending submission and count its verdict.  A reply    *)
(* that pairs with nothing is dropped.                                     *)
HandleLine ==
    /\ rx = "handle" /\ lines # <<>>
    /\ LET m == Head(lines)
           fate == IF m.status = "OK" THEN "accepted" ELSE "rejected"
       IN /\ current_job' = IF m.job = "good" THEN generation ELSE current_job
          /\ pending_shares' = pending_shares \ PendingWith(m.id)
          /\ \/ PendingWith(m.id) = {} /\ counter' = counter
             \/ \E p \in PendingWith(m.id) : counter' = Count(fate, p.share)
    /\ lines' = Tail(lines)
    /\ rx' = IF lines' = <<>> THEN "keepalive" ELSE "handle"
    /\ UNCHANGED <<lock, stream, generation, session_id, wallet, user_wallet,
                   request_id, submits_in_flight, rotationVars, tail,
                   workerVars, poolVars, caller, draining>>

KeepaliveNotDue ==
    /\ rx = "keepalive"
    /\ rx' = "silence"
    /\ UNCHANGED <<connVars, shareVars, rotationVars, readVars, workerVars,
                   poolVars, caller, draining>>

(* send_message: the id is taken and never registered. *)
KeepaliveSent ==
    /\ rx = "keepalive" /\ lock = "free" /\ stream # NoStream
    /\ request_id <= MaxRequestId
    /\ received' = received \cup
         {[share |-> NoShare, job |-> NoJob, sid |-> session_id,
           id |-> request_id, gen |-> stream, answer |-> "none"]}
    /\ request_id' = request_id + 1
    /\ rx' = "silence"
    /\ UNCHANGED <<connVars, pending_shares, submits_in_flight, counter,
                   rotationVars, readVars, workerVars, inbox, account, caller,
                   draining>>

KeepaliveFails ==
    /\ rx = "keepalive" /\ lock = "free"
    /\ request_id <= MaxRequestId
    /\ request_id' = request_id + 1
    /\ caller' = "reconnect_keepalive"
    /\ rx' = "clear_job"
    /\ UNCHANGED <<connVars, pending_shares, submits_in_flight, counter,
                   rotationVars, readVars, workerVars, poolVars, draining>>

NotSilent ==
    /\ rx = "silence"
    /\ rx' = "top"
    /\ UNCHANGED <<connVars, shareVars, rotationVars, readVars, workerVars,
                   poolVars, caller, draining>>

(* Nothing received for the silence limit. *)
SilentTooLong ==
    /\ rx = "silence"
    /\ caller' = "reconnect_silence"
    /\ rx' = "clear_job"
    /\ UNCHANGED <<connVars, shareVars, rotationVars, readVars, workerVars,
                   poolVars, draining>>
-----------------------------------------------------------------------------
(***************************************************************************)
(* A worker: find a share on the current job, then submit_share.           *)
(***************************************************************************)
receiverVars == <<rotationVars, readVars, rx, caller, draining>>

FindShare(w, s) ==
    /\ wk[w] = "mine" /\ current_job # NoJob /\ s \notin shares_found
    /\ shares_found' = shares_found \cup {s}
    /\ hand' = [hand EXCEPT ![w] = [share |-> s, job |-> current_job,
                                    sid |-> 0, id |-> 0]]
    /\ wk' = [wk EXCEPT ![w] = "enter"]
    /\ UNCHANGED <<connVars, shareVars, receiverVars, poolVars>>

EnterSubmit(w) ==
    /\ wk[w] = "enter"
    /\ submits_in_flight' = submits_in_flight + 1
    /\ wk' = [wk EXCEPT ![w] = "build"]
    /\ UNCHANGED <<connVars, request_id, pending_shares, counter, hand,
                   shares_found, receiverVars, poolVars>>

(* The session id is read, and the request id taken, before any lock. *)
BuildRequest(w) ==
    /\ wk[w] = "build"
    /\ hand' = [hand EXCEPT ![w].sid = session_id, ![w].id = request_id]
    /\ request_id' = request_id + 1
    /\ wk' = [wk EXCEPT ![w] = "write"]
    /\ UNCHANGED <<connVars, pending_shares, submits_in_flight, counter,
                   shares_found, receiverVars, poolVars>>

(* Faulty variant: any live stream will do (before #41). *)
AnyStream(w) == stream # NoStream

(* write_and_register may write: the lock is held, there is a stream, and  *)
(* the share's job was issued on it.                                       *)
MayWrite(w) == stream # NoStream /\ hand[w].job = generation

AsRequest(h) == [share |-> h.share, job |-> h.job, sid |-> h.sid,
                 id |-> h.id, gen |-> stream, answer |-> "none"]

(* Faulty variant: the guard is released between write and registration. *)
ReleasedAfterWrite(w) == "free"

LockAfterWrite(w) == w

WriteShare(w) ==
    /\ wk[w] = "write" /\ lock = "free" /\ MayWrite(w)
    /\ lock' = LockAfterWrite(w)
    /\ received' = received \cup {AsRequest(hand[w])}
    /\ wk' = [wk EXCEPT ![w] = "register"]
    /\ UNCHANGED <<stream, generation, current_job, session_id, wallet,
                   user_wallet, shareVars, hand, shares_found, receiverVars,
                   inbox, account>>

(* Still under the stream lock, which the return releases. *)
RegisterShare(w) ==
    /\ wk[w] = "register"
    /\ pending_shares' = pending_shares \cup {hand[w]}
    /\ lock' = "free"
    /\ wk' = [wk EXCEPT ![w] = "leave"]
    /\ UNCHANGED <<stream, generation, current_job, session_id, wallet,
                   user_wallet, request_id, submits_in_flight, counter, hand,
                   shares_found, receiverVars, poolVars>>

(* No stream, or a job of a replaced connection. *)
RefuseShare(w) ==
    /\ wk[w] = "write" /\ lock = "free" /\ ~MayWrite(w)
    /\ wk' = [wk EXCEPT ![w] = "unsent"]
    /\ UNCHANGED <<connVars, shareVars, hand, shares_found, receiverVars,
                   poolVars>>

(* write_request fails, in write_all before the request is complete or in  *)
(* flush after the stream accepted all of it; in the second case the       *)
(* request may still reach the pool.                                       *)
WriteFails(w) ==
    /\ wk[w] = "write" /\ lock = "free" /\ MayWrite(w)
    /\ received' \in {received, received \cup {AsRequest(hand[w])}}
    /\ wk' = [wk EXCEPT ![w] = "unsent"]
    /\ UNCHANGED <<connVars, shareVars, hand, shares_found, receiverVars,
                   inbox, account>>

(* Faulty variant: a share that was never written is forgotten. *)
UnsentForgotten(w) == counter

UnsentCounted(w) == Count("unsent", hand[w].share)

CountUnsent(w) ==
    /\ wk[w] = "unsent"
    /\ counter' = UnsentCounted(w)
    /\ wk' = [wk EXCEPT ![w] = "leave"]
    /\ UNCHANGED <<connVars, request_id, pending_shares, submits_in_flight,
                   hand, shares_found, receiverVars, poolVars>>

InFlightDropped == submits_in_flight - 1

(* The in-flight guard is dropped on every way out. *)
LeaveSubmit(w) ==
    /\ wk[w] = "leave"
    /\ submits_in_flight' = InFlightDropped
    /\ hand' = [hand EXCEPT ![w] = Idle]
    /\ wk' = [wk EXCEPT ![w] = "mine"]
    /\ UNCHANGED <<connVars, request_id, pending_shares, counter,
                   shares_found, receiverVars, poolVars>>
-----------------------------------------------------------------------------
(***************************************************************************)
(* The pool (not in this repository): answers each request of the live     *)
(* connection at most once, in any order, and pushes jobs once a login     *)
(* succeeded.                                                              *)
(***************************************************************************)
PoolAnswers(r) ==
    /\ stream # NoStream /\ r.gen = stream /\ r.answer = "none"
    /\ Len(inbox) < MaxInbox
    /\ \E a \in IF r.share = NoShare THEN {"KEEPALIVED", "error"}
                                     ELSE {"OK", "error"} :
        /\ received' = (received \ {r}) \cup {[r EXCEPT !.answer = a]}
        /\ inbox' = Append(inbox, [job |-> "none", id |-> r.id, status |-> a])
    /\ UNCHANGED <<connVars, shareVars, receiverVars, workerVars, account>>

PoolPushesJob ==
    /\ account # NoWallet /\ Len(inbox) < MaxInbox
    /\ \E j \in {"good", "bad"} :
        inbox' = Append(inbox, [job |-> j, id |-> 0, status |-> "none"])
    /\ UNCHANGED <<connVars, shareVars, receiverVars, workerVars, received,
                   account>>
-----------------------------------------------------------------------------
Establish == \/ Connect \/ ConnectFails \/ SendLogin \/ LoginAccepted
             \/ LoginFails \/ SetSession \/ SetJob \/ ClearStream
Rotate == \/ LoopTop \/ SettleFirstRead \/ RotationProceeds
          \/ RotationDeferred
TearDown == ClearJob \/ DropStream \/ Drain \/ DrainEach \/ DrainDone
Receive == \/ ReadData \/ ReadTimesOut \/ ReadFails \/ ReadOverflows
           \/ HandleLine \/ KeepaliveNotDue \/ KeepaliveSent
           \/ KeepaliveFails \/ NotSilent \/ SilentTooLong
Submit(w) == \/ EnterSubmit(w) \/ BuildRequest(w) \/ WriteShare(w)
             \/ RegisterShare(w) \/ RefuseShare(w) \/ WriteFails(w)
             \/ CountUnsent(w) \/ LeaveSubmit(w)
Pool == (\E r \in received : PoolAnswers(r)) \/ PoolPushesJob

(* initialize() failed and the process ended. *)
Exited == rx = "exited" /\ UNCHANGED vars

Next == \/ Establish \/ Rotate \/ TearDown \/ Receive
        \/ \E w \in Workers : Submit(w) \/ \E s \in Shares : FindShare(w, s)
        \/ Pool \/ Exited

Spec == Init /\ [][Next]_vars
-----------------------------------------------------------------------------
(* Type invariant: the state of struct PoolConnection, of the receiver and *)
(* of the workers; in particular the counters and submits_in_flight never  *)
(* go below zero.                                                          *)
TypeOK ==
    /\ lock \in Workers \cup {"free", Receiver}
    /\ stream \in Generations /\ generation \in Generations
    /\ current_job \in Generations /\ session_id \in Generations
    /\ wallet \in Beneficiaries \cup {NoWallet}
    /\ user_wallet \in Beneficiaries \cup {NoWallet}
    /\ request_id \in Nat
    /\ pending_shares \subseteq Submission
    /\ submits_in_flight \in Nat
    /\ counter \in [Fates -> [Shares -> Nat]]
    /\ rotation_wait \in Beneficiaries \cup {NoWallet}
    /\ active \in Beneficiaries /\ want \in Beneficiaries
    /\ gate \in [in_flight : Nat, early : SUBSET Shares, settled : BOOLEAN]
    /\ lines \in Seq(Line) /\ tail \in Generations
    /\ wk \in [Workers -> wkLabels]
    /\ hand \in [Workers -> Submission \cup {Idle}]
    /\ shares_found \subseteq Shares
    /\ received \subseteq Request
    /\ inbox \in Seq(Line)
    /\ account \in Beneficiaries \cup {NoWallet}
    /\ rx \in rxLabels /\ caller \in Callers
    /\ draining \subseteq Submission

Total(s) == counter["accepted"][s] + counter["rejected"][s]
            + counter["lost"][s] + counter["unsent"][s]
Holds(w, s) == hand[w].share = s /\ wk[w] \notin {"mine", "leave"}
InHand(s) == \E w \in Workers : Holds(w, s)
Waiting(s) == \E p \in pending_shares \cup draining : p.share = s

(* The ledger of reset_share_counters, found = accepted + rejected + lost  *)
(* + unsent + pending, share by share and at every moment: a found share   *)
(* is in exactly one place - still inside submit_share, awaiting a reply,  *)
(* or counted once - whatever reconnects, rotations and replies interleave.*)
LedgerExact ==
    \A s \in Shares :
        \/ s \notin shares_found /\ ~InHand(s) /\ ~Waiting(s) /\ Total(s) = 0
        \/ s \in shares_found /\ InHand(s) /\ ~Waiting(s) /\ Total(s) = 0
        \/ s \in shares_found /\ ~InHand(s) /\ Waiting(s) /\ Total(s) = 0
        \/ s \in shares_found /\ ~InHand(s) /\ ~Waiting(s) /\ Total(s) = 1

(* Where the abstract ledger sees a share. *)
Place(s) ==
    IF      counter["accepted"][s] > 0 THEN "accepted"
    ELSE IF counter["rejected"][s] > 0 THEN "rejected"
    ELSE IF counter["lost"][s] > 0     THEN "lost"
    ELSE IF counter["unsent"][s] > 0   THEN "unsent"
    ELSE IF Waiting(s)                 THEN "waiting"
    ELSE IF InHand(s)                  THEN "in_hand"
    ELSE                                    "unfound"

Ledger == INSTANCE ShareLedger WITH place <- [s \in Shares |-> Place(s)]

(* The session implements the share ledger: every step of the receiver, of *)
(* a worker or of the pool moves at most one share, and only the way       *)
(* found -> in hand -> (unsent | waiting -> (accepted | rejected | lost)). *)
LedgerRefined == Ledger!Spec

(* write_and_register's generation check (#41): whatever reaches the pool  *)
(* as a submission was hashed on a job of the very connection it was       *)
(* written to and carries the session id of that connection, although the  *)
(* worker read the session id before it took the stream lock.              *)
OwnSession ==
    \A r \in received : r.share # NoShare => r.job = r.gen /\ r.sid = r.gen

(* A pending submission is always one of the live connection: none         *)
(* survives into the next one, and none is left once reconnect() or        *)
(* relogin_as() has drained.                                               *)
PendingOnLiveStream ==
    \A p \in pending_shares :
        /\ p.job = generation
        /\ stream = NoStream => rx = "drain"

(* handle_pool_message counts a share by the pool's answer to that share's *)
(* own submission, and only a share that was written is counted lost; a    *)
(* keepalive reply is never taken for a share's.                           *)
CountedAsAnswered ==
    \A s \in Shares :
        LET answers == {r.answer : r \in {q \in received : q.share = s}}
        IN /\ counter["accepted"][s] > 0 => answers = {"OK"}
           /\ counter["rejected"][s] > 0 => answers = {"error"}
           /\ counter["lost"][s] > 0 => answers # {}

(* The write and the registration are one critical section: when a reply   *)
(* to a submission is about to be handled, the submission is already in    *)
(* pending_shares, unless submit_share reported it as not sent.            *)
NoOrphanReply ==
    \A r \in received :
        (/\ rx = "handle" /\ lines # <<>> /\ Head(lines).id = r.id
         /\ r.share # NoShare /\ counter["unsent"][r.share] = 0
         /\ \A w \in Workers : ~(hand[w].share = r.share /\ wk[w] = "unsent"))
        => PendingWith(r.id) # {}

(* Workers never see a job that was not issued on the live, logged-in      *)
(* connection.                                                             *)
JobOfLiveSession ==
    current_job # NoJob => /\ stream = generation
                           /\ current_job = generation
                           /\ session_id = generation

(* Whenever the receiver reads, the connection is logged in for the        *)
(* beneficiary the loop believes is active, and `User` always means the    *)
(* wallet of the first login, never a donation address (user_wallet).      *)
CreditedWallet ==
    rx = "read" /\ stream # NoStream => account = active /\ wallet = active

(* The bytes left over in the receive buffer are bytes of the connection   *)
(* being read: no line is ever spliced from two connections.               *)
NoSplicedLine ==
    rx = "read" /\ stream # NoStream => tail \in {NoStream, stream}

(* A rotation that rotation_settled lets through because nothing was       *)
(* outstanding drops no share that was outstanding at its first read.      *)
SettledMeansSettled ==
    (/\ caller = "relogin" /\ gate.settled
     /\ rx \in {"clear_job", "drop_stream", "drain"})
    => gate.early \cap Outstanding = {}

(* What the comment on unsent_shares says: the pool never saw a share that *)
(* is counted unsent.                                                      *)
UnsentNeverSeen ==
    \A r \in received : r.share # NoShare => counter["unsent"][r.share] = 0

(* What the comment on submits_in_flight says: a rotation does not proceed *)
(* while a submit is parked on the stream lock, unless the wait limit      *)
(* forced it.                                                              *)
NoRotationOverParkedSubmit ==
    rx = "drop_stream" /\ caller = "relogin" /\ gate.settled
    => \A w \in Workers : wk[w] # "write"
=============================================================================
