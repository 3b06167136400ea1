--------------------------- MODULE ReceiverClock ---------------------------
(***************************************************************************)
(* The clocks of receiver_loop in pool_connection.rs: the donation         *)
(* schedule of donate.rs, the wait of a deferred rotation and the silence  *)
(* timeout.  PoolSession lets every timeout fire at any check; here time   *)
(* passes, and the question is when they fire.                             *)
(*                                                                         *)
(* The schedule is periodic, so the clock is kept modulo the cycle, and an *)
(* Instant is kept as its age, up to Horizon.                              *)
(***************************************************************************)
EXTENDS Naturals, FiniteSets

CONSTANTS Cycle,            \* CYCLE_SECS
          RequestedLevels,   \* levels --donate-level may ask for
          SettleLimit,       \* rotation_settle_ms
          SilenceLimit,      \* silence_timeout_ms
          MaxIteration       \* bound: ticks an iteration takes if it neither
                             \* reconnects nor logs in again; the read polls

ASSUME ClockAssumption ==
    /\ Cycle \in Nat \ {0} /\ RequestedLevels \subseteq 0 .. 255
    /\ SettleLimit \in Nat \ {0} /\ SilenceLimit \in Nat \ {0}
    /\ MaxIteration \in Nat \ {0}

VARIABLES
    now,           \* donation_start.elapsed() modulo the cycle
    level,         \* the schedule's level
    pc, after,     \* where the loop is, and where it goes on after reconnect
    iteration,     \* ticks spent in this iteration
    want, last_want, active,
    wait_since,    \* rotation_wait_since: whom it is for and its age
    last_recv,     \* age of the loop's last_recv
    outstanding,   \* is a submission in flight or pending?
    stream,        \* is there a stream?
    (* What really happened, for the properties. *)
    slice,         \* age of the schedule's present slice
    up,            \* age of the present connection
    quiet,         \* age of the last byte of the present connection
    due            \* for how long a rotation has been due on it

loopVars == <<pc, after, iteration, stream>>
rotationVars == <<want, last_want, active, wait_since>>
realVars == <<slice, up, quiet, due>>
vars == <<now, level, loopVars, rotationVars, last_recv, outstanding, realVars>>
-----------------------------------------------------------------------------
Beneficiary == {"User", "Author", "Xmrig"}
Horizon == SettleLimit + SilenceLimit + 3 * MaxIteration
Older(age) == IF age < Horizon THEN age + 1 ELSE age
NoWait == [who |-> "none", age |-> 0]

clamp_level(l) == IF l < 1 THEN 1 ELSE IF l > 100 THEN 100 ELSE l

donate(l) == (Cycle * l) \div 100

(* Faulty variant: the author's half takes the odd second as well. *)
BeneficiaryRoundedUp(l, t) ==
    CASE t < Cycle - donate(l) -> "User"
      [] t >= Cycle - donate(l) /\ t <= Cycle - donate(l) + donate(l) \div 2
           -> "Author"
      [] OTHER -> "Xmrig"

(* The donated part is at the end of a cycle, the author's half first. *)
beneficiary_at(l, t) ==
    LET author == donate(l) \div 2
        user == Cycle - donate(l)
    IN CASE t < user -> "User"
         [] t >= user /\ t < user + author -> "Author"
         [] t >= user + author -> "Xmrig"

Levels == {clamp_level(l) : l \in RequestedLevels}

(* A slice of the schedule that is not empty outlasts an iteration: the    *)
(* shortest is half a minute, and an iteration polls every 50 ms.          *)
ASSUME SliceAssumption ==
    \A l \in Levels :
        \A n \in {Cycle - donate(l), donate(l) \div 2,
                  donate(l) - donate(l) \div 2} : n = 0 \/ n > MaxIteration

Init ==
    /\ now = 0
    /\ level \in Levels
    /\ pc = "top" /\ after = "top" /\ iteration = 0 /\ stream = TRUE
    /\ want = "User" /\ last_want = "User" /\ active = "User"
    /\ wait_since = NoWait
    /\ last_recv = 0
    /\ outstanding = FALSE
    /\ slice = 0 /\ up = 0 /\ quiet = 0 /\ due = 0
-----------------------------------------------------------------------------
(* Time passes: without limit while a connection is being made, otherwise  *)
(* as long as an iteration may take.                                       *)
Tick ==
    LET next == (now + 1) % Cycle
        changed == beneficiary_at(level, next) # beneficiary_at(level, now)
    IN /\ pc \in {"relogin", "reconnect"} \/ iteration < MaxIteration
       /\ now' = next
       /\ iteration' = IF pc \in {"relogin", "reconnect"} THEN iteration
                                                          ELSE iteration + 1
       /\ wait_since' = IF wait_since = NoWait THEN NoWait
                        ELSE [wait_since EXCEPT !.age = Older(@)]
       /\ last_recv' = Older(last_recv)
       /\ slice' = IF changed THEN 0 ELSE Older(slice)
       /\ up' = Older(up) /\ quiet' = Older(quiet)
       /\ due' = IF changed \/ active = beneficiary_at(level, next) THEN 0
                                                                 ELSE Older(due)
       /\ UNCHANGED <<level, pc, after, stream, want, last_want, active,
                      outstanding>>

(* Workers submit and the pool answers. *)
SubmissionsChange ==
    /\ outstanding' = ~outstanding
    /\ UNCHANGED <<now, level, loopVars, rotationVars, last_recv, realVars>>
-----------------------------------------------------------------------------
(***************************************************************************)
(* The top of receiver_loop.                                               *)
(***************************************************************************)

(* Faulty variant: a change of target leaves the deferral alone. *)
WaitNotNoted(w) == wait_since

(* note_donation_target: a change of target ends the deferral. *)
WaitAfterNote(w) == IF w # last_want THEN NoWait ELSE wait_since

(* rotation_settled first drops a deferral for somebody else. *)
WaitFor(w) == IF WaitAfterNote(w).who = w THEN WaitAfterNote(w) ELSE NoWait

(* Faulty variant: a rotation waits for the last answer, however long. *)
ProceedsOnlySettled(w) == ~outstanding

rotation_may_proceed(w) == ~outstanding \/ WaitFor(w).age >= SettleLimit

(* The schedule is read; no rotation is due. *)
NoRotation ==
    LET w == beneficiary_at(level, now)
    IN /\ pc = "top" /\ w = active
       /\ want' = w /\ last_want' = w /\ active' = active
       /\ wait_since' = WaitAfterNote(w)
       /\ pc' = "read" /\ iteration' = 0
       /\ UNCHANGED <<now, level, after, stream, last_recv, outstanding,
                      realVars>>

RotationDeferred ==
    LET w == beneficiary_at(level, now)
    IN /\ pc = "top" /\ w # active
       /\ ~rotation_may_proceed(w)
       /\ want' = w /\ last_want' = w /\ active' = active
       /\ wait_since' = IF WaitFor(w) = NoWait THEN [who |-> w, age |-> 0]
                                               ELSE WaitFor(w)
       /\ pc' = "read" /\ iteration' = 0
       /\ UNCHANGED <<now, level, after, stream, last_recv, outstanding,
                      realVars>>

(* active is set before the new login is tried. *)
RotationProceeds ==
    LET w == beneficiary_at(level, now)
    IN /\ pc = "top" /\ w # active
       /\ rotation_may_proceed(w)
       /\ want' = w /\ last_want' = w /\ active' = w
       /\ wait_since' = NoWait
       /\ pc' = "relogin" /\ iteration' = 0 /\ stream' = FALSE
       /\ due' = 0
       /\ UNCHANGED <<now, level, after, last_recv, outstanding, slice, up,
                      quiet>>

ReloginSucceeds ==
    /\ pc = "relogin"
    /\ pc' = "top" /\ iteration' = 0 /\ stream' = TRUE
    /\ last_recv' = 0
    /\ up' = 0 /\ quiet' = 0 /\ due' = 0
    /\ UNCHANGED <<now, level, after, rotationVars, outstanding, slice>>

(* The loop goes on to a read that finds no stream. *)
ReloginFails ==
    /\ pc = "relogin"
    /\ pc' = "read"
    /\ UNCHANGED <<now, level, after, iteration, stream, rotationVars,
                   last_recv, outstanding, realVars>>
-----------------------------------------------------------------------------
(***************************************************************************)
(* The read, the keepalive and the silence check; each may end in          *)
(* reconnect, which drops a deferral and retries without limit.            *)
(***************************************************************************)
ReconnectFrom(label) ==
    /\ pc' = "reconnect" /\ after' = label
    /\ stream' = FALSE
    /\ wait_since' = NoWait
    /\ UNCHANGED <<now, level, iteration, want, last_want, active, last_recv,
                   outstanding, realVars>>

ReadData ==
    /\ pc = "read" /\ stream
    /\ pc' = "keepalive"
    /\ last_recv' = 0 /\ quiet' = 0
    /\ UNCHANGED <<now, level, after, iteration, stream, rotationVars,
                   outstanding, slice, up, due>>

ReadTimesOut ==
    /\ pc = "read" /\ stream
    /\ pc' = "keepalive"
    /\ UNCHANGED <<now, level, after, iteration, stream, rotationVars,
                   last_recv, outstanding, realVars>>

(* End of file, an error, no stream, or too long a line. *)
ReadFails == pc = "read" /\ ReconnectFrom("keepalive")

(* Faulty variant: the reconnect does not count as having heard the pool. *)
RecvNotRefreshed == last_recv

RecvAfterReconnect == 0

Reconnected ==
    /\ pc = "reconnect"
    /\ pc' = after
    /\ iteration' = 0 /\ stream' = TRUE
    /\ last_recv' = RecvAfterReconnect
    /\ up' = 0 /\ quiet' = 0 /\ due' = 0
    /\ UNCHANGED <<now, level, after, rotationVars, outstanding, slice>>

(* Faulty variant: a keepalive counts as a sign of life. *)
RecvRefreshedByKeepalive == 0

RecvAfterKeepalive == last_recv

(* Not due, or sent. *)
KeepaliveDone ==
    /\ pc = "keepalive"
    /\ pc' = "silence"
    /\ last_recv' = RecvAfterKeepalive
    /\ UNCHANGED <<now, level, after, iteration, stream, rotationVars,
                   outstanding, realVars>>

KeepaliveFails == pc = "keepalive" /\ ReconnectFrom("top")

NotSilent ==
    /\ pc = "silence" /\ last_recv < SilenceLimit
    /\ pc' = "top"
    /\ UNCHANGED <<now, level, after, iteration, stream, rotationVars,
                   last_recv, outstanding, realVars>>

SilentTooLong ==
    /\ pc = "silence" /\ last_recv >= SilenceLimit
    /\ ReconnectFrom("top")

Rotate == NoRotation \/ RotationDeferred \/ RotationProceeds
Relogin == ReloginSucceeds \/ ReloginFails
Read == ReadData \/ ReadTimesOut \/ ReadFails
Check == KeepaliveDone \/ KeepaliveFails \/ NotSilent \/ SilentTooLong

Next == \/ Tick \/ SubmissionsChange
        \/ Rotate \/ Relogin \/ Read \/ Reconnected \/ Check

Spec == Init /\ [][Next]_vars
-----------------------------------------------------------------------------
(* Type invariant: the locals of receiver_loop, the deferral and the ages. *)
TypeOK ==
    /\ now \in 0 .. Cycle - 1 /\ level \in 1 .. 100
    /\ pc \in {"top", "relogin", "read", "reconnect", "keepalive", "silence"}
    /\ after \in {"top", "keepalive"}
    /\ iteration \in 0 .. MaxIteration /\ stream \in BOOLEAN
    /\ {want, last_want, active} \subseteq Beneficiary
    /\ wait_since \in [who : Beneficiary, age : 0 .. Horizon] \cup {NoWait}
    /\ outstanding \in BOOLEAN
    /\ {last_recv, slice, up, quiet, due} \subseteq 0 .. Horizon

(* The donated seconds of a cycle are level percent of it, rounded down,   *)
(* and the author never gets more of them than XMRig, nor two fewer.       *)
DonatesItsLevel ==
    LET Seconds(who) ==
            Cardinality({t \in 0 .. Cycle - 1 : beneficiary_at(level, t) = who})
    IN /\ Seconds("Author") + Seconds("Xmrig") = donate(level)
       /\ Seconds("Xmrig") - Seconds("Author") \in {0, 1}

(* A rotation gives up on unanswered submissions only when it has been due *)
(* for the whole settle limit in this slice and on this connection: no     *)
(* wait left over from an earlier slice of the same beneficiary, or from   *)
(* before an outage, is counted in.                                        *)
DropsOnlyAfterFullWait ==
    [][active' # active /\ outstanding =>
         slice >= SettleLimit /\ up >= SettleLimit]_vars

(* A rotation is not put off for ever: on a connection that stays up it    *)
(* happens within the settle limit, give or take the iteration that        *)
(* notices it is due and the one that notices the limit has passed.        *)
RotationInTime == stream => due <= SettleLimit + 2 * MaxIteration

(* A connection is given up as silent only if it was silent that long; the *)
(* time a reconnect took is never held against the connection it made.     *)
SilenceIsReal ==
    [][pc = "silence" /\ pc' = "reconnect" => quiet >= SilenceLimit]_vars

(* A silent connection is given up in time, whatever rotations are         *)
(* deferred and keepalives sent on it.                                     *)
SilenceNoticed ==
    pc \notin {"relogin", "reconnect"} /\ stream =>
        quiet <= SilenceLimit + 2 * MaxIteration
=============================================================================
