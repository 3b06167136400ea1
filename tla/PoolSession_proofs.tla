------------------------- MODULE PoolSession_proofs -------------------------
(***************************************************************************)
(* Proofs about PoolSession, for every set of workers, shares and          *)
(* beneficiaries and every bound.                                          *)
(***************************************************************************)
EXTENDS PoolSession, FiniteSetTheorems, SequenceTheorems, TLAPS

Inside == {w \in Workers : wk[w] \notin {"mine", "enter"}}

(* submits_in_flight counts the workers inside submit_share. *)
InFlightExact ==
    /\ submits_in_flight = Cardinality(Inside)
    /\ \A w \in Workers : wk[w] # "mine" => hand[w] \in Submission

(* Who is inside a stream critical section. *)
LockHeld ==
    /\ \A w \in Workers : lock = w <=> wk[w] = "register"
    /\ lock = Receiver <=> rx = "login_reply"

LiveLabels == {"set_job", "top", "settle_1", "settle_2", "handle",
               "keepalive", "silence"}
LoginLabels == {"send_login", "login_reply", "set_session"}

(* Where the receiver is determines whether there is a stream and whether  *)
(* it is logged in.                                                        *)
StreamInv ==
    /\ stream # NoStream => stream = generation
    /\ rx \in {"drain", "drain_each", "connect", "exited"} => stream = NoStream
    /\ rx \in LiveLabels => stream = generation /\ generation # 0
    /\ rx \in LoginLabels => stream = generation /\ generation # 0
    /\ rx \in LiveLabels \cup {"read"} /\ stream # NoStream
         => session_id = generation
    /\ rx \in LoginLabels \cup {"clear_stream"} /\ stream # NoStream
         => session_id # generation
    /\ session_id <= generation

JobInv ==
    /\ JobOfLiveSession
    /\ rx \in LoginLabels \cup {"drop_stream", "drain", "drain_each",
                                "connect", "set_job", "clear_stream"}
         => current_job = NoJob

(* A share in hand whose job is of the live connection has its session id. *)
HandInv ==
    \A w \in Workers : wk[w] # "mine" =>
        /\ hand[w].job # NoJob /\ hand[w].job <= generation
        /\ hand[w].job = generation => session_id = generation
        /\ wk[w] \in {"write", "register"} /\ hand[w].job = generation
             => hand[w].sid = generation
        /\ wk[w] = "register" => /\ stream = generation
                                 /\ hand[w].job = generation

PendingInv ==
    /\ PendingOnLiveStream
    /\ rx \in LoginLabels \cup {"clear_stream"} => pending_shares = {}

ConnInv ==
    /\ TypeOK /\ InFlightExact /\ LockHeld /\ StreamInv /\ JobInv /\ HandInv
    /\ PendingInv /\ OwnSession

LoopLabels == {"top", "settle_1", "settle_2", "handle", "keepalive", "silence"}
Reading == rx = "read" /\ stream # NoStream

(* Whom the session is for: until the first login nobody, then the wallet  *)
(* of the last login is the active beneficiary's, and so is the account    *)
(* the pool credits once it accepted the login.                            *)
WalletInv ==
    /\ user_wallet \in {NoWallet, User}
    /\ caller = "startup" =>
         /\ rx \in LoginLabels \cup {"connect", "set_job", "clear_stream",
                                     "exited"}
         /\ active = User
    /\ caller # "startup" \/ rx \in {"login_reply", "set_session", "set_job"}
         => user_wallet = User /\ wallet = active
    /\ rx \in LoopLabels \cup {"set_session", "set_job"} \/ Reading
         => account = active

(* Whose bytes the receive buffer holds: after a tear-down it may still be *)
(* the old connection's, until the caller of login() clears it.            *)
TailInv == rx \in LoopLabels \/ Reading => tail \in {NoStream, stream}
-----------------------------------------------------------------------------
USE DEF connVars, shareVars, rotationVars, readVars, workerVars, poolVars,
        receiverVars, NoStream, NoJob, NoShare, Receiver

LEMMA StreamStep == ConnInv /\ [Next]_vars => StreamInv'
<1> SUFFICES ASSUME ConnInv, [Next]_vars PROVE StreamInv'
  OBVIOUS
<1> USE SessionAssumption DEF ConnInv, TypeOK, StreamInv, LiveLabels,
        LoginLabels, Generations
<1>1. CASE Establish
  BY <1>1 DEF Establish, Connect, ConnectFails, SendLogin, LoginAccepted,
       LoginFails, SetSession, SetJob, ClearStream, AfterLogin
<1>2. CASE Rotate
  BY <1>2 DEF Rotate, LoopTop, SettleFirstRead, RotationProceeds,
       RotationDeferred
<1>3. CASE TearDown
  BY <1>3 DEF TearDown, ClearJob, DropStream, Drain, DrainEach, DrainDone
<1>4. CASE Receive
  BY <1>4 DEF Receive, ReadData, ReadTimesOut, ReadFails, ReadOverflows,
       HandleLine, KeepaliveNotDue, KeepaliveSent, KeepaliveFails,
       NotSilent, SilentTooLong
<1>5. ASSUME NEW w \in Workers, Submit(w) PROVE StreamInv'
  BY <1>5 DEF Submit, EnterSubmit, BuildRequest, WriteShare, RegisterShare,
       RefuseShare, WriteFails, CountUnsent, LeaveSubmit
<1>6. ASSUME NEW w \in Workers, NEW s \in Shares, FindShare(w, s)
     PROVE  StreamInv'
  BY <1>6 DEF FindShare
<1>7. CASE Pool
  BY <1>7 DEF Pool, PoolAnswers, PoolPushesJob
<1>8. CASE Exited \/ UNCHANGED vars
  BY <1>8 DEF Exited, vars
<1>9. QED
  BY <1>1, <1>2, <1>3, <1>4, <1>5, <1>6, <1>7, <1>8 DEF Next

LEMMA LockStep == ConnInv /\ [Next]_vars => LockHeld'
<1> SUFFICES ASSUME ConnInv, [Next]_vars PROVE LockHeld'
  OBVIOUS
<1> USE SessionAssumption DEF ConnInv, TypeOK, LockHeld
<1>1. CASE Establish
  BY <1>1 DEF Establish, Connect, ConnectFails, SendLogin, LoginAccepted,
       LoginFails, SetSession, SetJob, ClearStream, AfterLogin
<1>2. CASE Rotate
  BY <1>2 DEF Rotate, LoopTop, SettleFirstRead, RotationProceeds,
       RotationDeferred
<1>3. CASE TearDown
  BY <1>3 DEF TearDown, ClearJob, DropStream, Drain, DrainEach, DrainDone
<1>4. CASE Receive
  BY <1>4 DEF Receive, ReadData, ReadTimesOut, ReadFails, ReadOverflows,
       HandleLine, KeepaliveNotDue, KeepaliveSent, KeepaliveFails,
       NotSilent, SilentTooLong
<1>5. ASSUME NEW w \in Workers, Submit(w) PROVE LockHeld'
  BY <1>5 DEF Submit, EnterSubmit, BuildRequest, WriteShare, RegisterShare,
       RefuseShare, WriteFails, CountUnsent, LeaveSubmit, LockAfterWrite
<1>6. ASSUME NEW w \in Workers, NEW s \in Shares, FindShare(w, s)
     PROVE  LockHeld'
  BY <1>6 DEF FindShare
<1>7. CASE Pool
  BY <1>7 DEF Pool, PoolAnswers, PoolPushesJob
<1>8. CASE Exited \/ UNCHANGED vars
  BY <1>8 DEF Exited, vars
<1>9. QED
  BY <1>1, <1>2, <1>3, <1>4, <1>5, <1>6, <1>7, <1>8 DEF Next

LEMMA JobStep == ConnInv /\ [Next]_vars => JobInv'
<1> SUFFICES ASSUME ConnInv, [Next]_vars PROVE JobInv'
  OBVIOUS
<1> USE SessionAssumption DEF ConnInv, TypeOK, JobInv, JobOfLiveSession,
        StreamInv, LiveLabels, LoginLabels, Generations
<1>1. CASE Establish
  BY <1>1 DEF Establish, Connect, ConnectFails, SendLogin, LoginAccepted,
       LoginFails, SetSession, SetJob, ClearStream, AfterLogin
<1>2. CASE Rotate
  BY <1>2 DEF Rotate, LoopTop, SettleFirstRead, RotationProceeds,
       RotationDeferred
<1>3. CASE TearDown
  BY <1>3 DEF TearDown, ClearJob, DropStream, Drain, DrainEach, DrainDone,
       JobAfterTearDown
<1>4. CASE Receive
  BY <1>4 DEF Receive, ReadData, ReadTimesOut, ReadFails, ReadOverflows,
       HandleLine, KeepaliveNotDue, KeepaliveSent, KeepaliveFails,
       NotSilent, SilentTooLong
<1>5. ASSUME NEW w \in Workers, Submit(w) PROVE JobInv'
  BY <1>5 DEF Submit, EnterSubmit, BuildRequest, WriteShare, RegisterShare,
       RefuseShare, WriteFails, CountUnsent, LeaveSubmit
<1>6. ASSUME NEW w \in Workers, NEW s \in Shares, FindShare(w, s)
     PROVE  JobInv'
  BY <1>6 DEF FindShare
<1>7. CASE Pool
  BY <1>7 DEF Pool, PoolAnswers, PoolPushesJob
<1>8. CASE Exited \/ UNCHANGED vars
  BY <1>8 DEF Exited, vars
<1>9. QED
  BY <1>1, <1>2, <1>3, <1>4, <1>5, <1>6, <1>7, <1>8 DEF Next

LEMMA HandStep == ConnInv /\ [Next]_vars => HandInv'
<1> SUFFICES ASSUME ConnInv, [Next]_vars PROVE HandInv'
  OBVIOUS
<1> USE SessionAssumption DEF ConnInv, TypeOK, HandInv, JobInv,
        JobOfLiveSession, StreamInv, LiveLabels, LoginLabels, LockHeld,
        InFlightExact, Submission, Generations
<1>1. CASE Establish
  <2>1. CASE Connect
    BY <2>1 DEF Connect
  <2>2. CASE ConnectFails
    BY <2>2 DEF ConnectFails, AfterLogin
  <2>3. CASE SendLogin
    BY <2>3 DEF SendLogin
  <2>4. CASE LoginAccepted
    BY <2>4 DEF LoginAccepted
  <2>5. CASE LoginFails
    BY <2>5 DEF LoginFails, AfterLogin
  <2>6. CASE SetSession
    BY <2>6 DEF SetSession
  <2>7. CASE SetJob
    BY <2>7 DEF SetJob, AfterLogin
  <2>8. CASE ClearStream
    BY <2>8 DEF ClearStream
  <2>9. QED
    BY <1>1, <2>1, <2>2, <2>3, <2>4, <2>5, <2>6, <2>7, <2>8 DEF Establish
<1>2. CASE Rotate
  BY <1>2, SMTT(30) DEF Rotate, LoopTop, SettleFirstRead, RotationProceeds,
       RotationDeferred
<1>3. CASE TearDown
  BY <1>3, SMTT(30) DEF TearDown, ClearJob, DropStream, Drain, DrainEach, DrainDone
<1>4. CASE Receive
  BY <1>4, SMTT(30) DEF Receive, ReadData, ReadTimesOut, ReadFails, ReadOverflows,
       HandleLine, KeepaliveNotDue, KeepaliveSent, KeepaliveFails,
       NotSilent, SilentTooLong
<1>5. ASSUME NEW w \in Workers, Submit(w) PROVE HandInv'
  <2>1. CASE EnterSubmit(w)
    BY <2>1 DEF EnterSubmit, MayWrite, Idle
  <2>2. CASE BuildRequest(w)
    BY <2>2, SMTT(30) DEF BuildRequest, MayWrite, Idle
  <2>3. CASE WriteShare(w)
    BY <2>3 DEF WriteShare, MayWrite, Idle
  <2>4. CASE RegisterShare(w)
    BY <2>4 DEF RegisterShare, MayWrite, Idle
  <2>5. CASE RefuseShare(w)
    BY <2>5 DEF RefuseShare, MayWrite, Idle
  <2>6. CASE WriteFails(w)
    BY <2>6 DEF WriteFails, MayWrite, Idle
  <2>7. CASE CountUnsent(w)
    BY <2>7 DEF CountUnsent, MayWrite, Idle
  <2>8. CASE LeaveSubmit(w)
    BY <2>8 DEF LeaveSubmit, MayWrite, Idle
  <2>9. QED
    BY <1>5, <2>1, <2>2, <2>3, <2>4, <2>5, <2>6, <2>7, <2>8 DEF Submit
<1>6. ASSUME NEW w \in Workers, NEW s \in Shares, FindShare(w, s)
     PROVE  HandInv'
  BY <1>6 DEF FindShare, Idle
<1>7. CASE Pool
  BY <1>7, SMTT(30) DEF Pool, PoolAnswers, PoolPushesJob
<1>8. CASE Exited \/ UNCHANGED vars
  BY <1>8 DEF Exited, vars
<1>9. QED
  BY <1>1, <1>2, <1>3, <1>4, <1>5, <1>6, <1>7, <1>8 DEF Next

LEMMA PendingStep == ConnInv /\ [Next]_vars => PendingInv'
<1> SUFFICES ASSUME ConnInv, [Next]_vars PROVE PendingInv'
  OBVIOUS
<1> USE SessionAssumption DEF ConnInv, TypeOK, HandInv, PendingInv,
        PendingOnLiveStream, StreamInv, LiveLabels, LoginLabels, LockHeld,
        Generations
<1>1. CASE Establish
  BY <1>1 DEF Establish, Connect, ConnectFails, SendLogin, LoginAccepted,
       LoginFails, SetSession, SetJob, ClearStream, AfterLogin
<1>2. CASE Rotate
  BY <1>2 DEF Rotate, LoopTop, SettleFirstRead, RotationProceeds,
       RotationDeferred
<1>3. CASE TearDown
  BY <1>3 DEF TearDown, ClearJob, DropStream, Drain, DrainEach, DrainDone,
       Drained
<1>4. CASE Receive
  BY <1>4 DEF Receive, ReadData, ReadTimesOut, ReadFails, ReadOverflows,
       HandleLine, KeepaliveNotDue, KeepaliveSent, KeepaliveFails,
       NotSilent, SilentTooLong, PendingWith
<1>5. ASSUME NEW w \in Workers, Submit(w) PROVE PendingInv'
  BY <1>5 DEF Submit, EnterSubmit, BuildRequest, WriteShare, RegisterShare,
       RefuseShare, WriteFails, CountUnsent, LeaveSubmit
<1>6. ASSUME NEW w \in Workers, NEW s \in Shares, FindShare(w, s)
     PROVE  PendingInv'
  BY <1>6 DEF FindShare
<1>7. CASE Pool
  BY <1>7 DEF Pool, PoolAnswers, PoolPushesJob
<1>8. CASE Exited \/ UNCHANGED vars
  BY <1>8 DEF Exited, vars
<1>9. QED
  BY <1>1, <1>2, <1>3, <1>4, <1>5, <1>6, <1>7, <1>8 DEF Next

LEMMA SessionStep == ConnInv /\ [Next]_vars => OwnSession'
<1> SUFFICES ASSUME ConnInv, [Next]_vars PROVE OwnSession'
  OBVIOUS
<1> USE SessionAssumption DEF ConnInv, TypeOK, HandInv, OwnSession,
        StreamInv, LiveLabels, LoginLabels, Generations
<1>1. CASE Establish
  BY <1>1 DEF Establish, Connect, ConnectFails, SendLogin, LoginAccepted,
       LoginFails, SetSession, SetJob, ClearStream
<1>2. CASE Rotate
  BY <1>2 DEF Rotate, LoopTop, SettleFirstRead, RotationProceeds,
       RotationDeferred
<1>3. CASE TearDown
  BY <1>3 DEF TearDown, ClearJob, DropStream, Drain, DrainEach, DrainDone
<1>4. CASE Receive
  BY <1>4 DEF Receive, ReadData, ReadTimesOut, ReadFails, ReadOverflows,
       HandleLine, KeepaliveNotDue, KeepaliveSent, KeepaliveFails,
       NotSilent, SilentTooLong
<1>5. ASSUME NEW w \in Workers, Submit(w) PROVE OwnSession'
  BY <1>5 DEF Submit, EnterSubmit, BuildRequest, WriteShare, RegisterShare,
       RefuseShare, WriteFails, CountUnsent, LeaveSubmit, MayWrite,
       AsRequest
<1>6. ASSUME NEW w \in Workers, NEW s \in Shares, FindShare(w, s)
     PROVE  OwnSession'
  BY <1>6 DEF FindShare
<1>7. CASE Pool
  <2>1. CASE \E r \in received : PoolAnswers(r)
    <3>1. PICK r \in received : PoolAnswers(r)
      BY <2>1
    <3>2. PICK a \in {"KEEPALIVED", "error", "OK"} :
            received' = (received \ {r}) \cup {[r EXCEPT !.answer = a]}
      BY <3>1 DEF PoolAnswers
    <3>3. r \in Request
      OBVIOUS
    <3>4. LET q == [r EXCEPT !.answer = a]
          IN  q.share = r.share /\ q.job = r.job /\ q.sid = r.sid /\ q.gen = r.gen
      BY <3>3 DEF Request
    <3>5. QED
      BY <3>2, <3>4
  <2>2. CASE PoolPushesJob
    BY <2>2 DEF PoolPushesJob, Request
  <2>3. QED
    BY <1>7, <2>1, <2>2 DEF Pool
<1>8. CASE Exited \/ UNCHANGED vars
  BY <1>8 DEF Exited, vars
<1>9. QED
  BY <1>1, <1>2, <1>3, <1>4, <1>5, <1>6, <1>7, <1>8 DEF Next

(* Bumping one counter for one share keeps the counters well typed. *)
LEMMA CountType ==
    ASSUME TypeOK, NEW fate \in Fates, NEW s \in Shares
    PROVE  Count(fate, s) \in [Fates -> [Shares -> Nat]]
BY DEF TypeOK, Count

(* A worker that is not mining holds a submission. *)
LEMMA SubmissionType ==
    ASSUME NEW h \in Submission
    PROVE  /\ h.share \in Shares /\ h.job \in Generations
           /\ h.sid \in Generations /\ h.id \in Nat
BY DEF Submission

LEMMA TypeStep == ConnInv /\ [Next]_vars => TypeOK'
<1> SUFFICES ASSUME ConnInv, [Next]_vars PROVE TypeOK'
  OBVIOUS
<1> USE SessionAssumption DEF ConnInv, TypeOK, rxLabels, wkLabels, Callers
<1>1. CASE Establish
  <2>1. CASE Connect
    BY <2>1 DEF Connect, Generations
  <2>2. CASE ConnectFails
    BY <2>2 DEF ConnectFails
  <2>3. CASE SendLogin
    BY <2>3 DEF SendLogin, LoginWallet, CapturedUserWallet
  <2>4. CASE LoginAccepted
    BY <2>4 DEF LoginAccepted
  <2>5. CASE LoginFails
    BY <2>5 DEF LoginFails
  <2>6. CASE SetSession
    BY <2>6 DEF SetSession
  <2>7. CASE SetJob
    BY <2>7 DEF SetJob, AfterLogin, BufferAfterLogin, Generations
  <2>8. CASE ClearStream
    BY <2>8 DEF ClearStream, Generations
  <2>9. QED
    BY <1>1, <2>1, <2>2, <2>3, <2>4, <2>5, <2>6, <2>7, <2>8 DEF Establish
<1>2. CASE Rotate
  <2>1. CASE LoopTop
    BY <2>1 DEF LoopTop
  <2>2. CASE SettleFirstRead
    BY <2>2 DEF SettleFirstRead, GateRead, Outstanding, InFlightExact,
         Submission
  <2>3. CASE RotationProceeds
    BY <2>3 DEF RotationProceeds, NothingOutstanding, GateRead,
         beneficiary_address
  <2>4. CASE RotationDeferred
    BY <2>4 DEF RotationDeferred, NoGate
  <2>5. QED
    BY <1>2, <2>1, <2>2, <2>3, <2>4 DEF Rotate
<1>3. CASE TearDown
  <2>1. CASE ClearJob
    BY <2>1 DEF ClearJob, JobAfterTearDown, Generations
  <2>2. CASE DropStream
    BY <2>2 DEF DropStream, Generations
  <2>3. CASE Drain
    BY <2>3 DEF Drain, NoGate, Drained
  <2>4. CASE DrainEach
    <3>1. PICK p \in draining : /\ counter' = Count("lost", p.share)
                               /\ draining' = draining \ {p}
      BY <2>4 DEF DrainEach
    <3>2. counter' \in [Fates -> [Shares -> Nat]]
      BY <3>1, CountType, SubmissionType DEF Fates
    <3>3. QED
      BY <2>4, <3>1, <3>2 DEF DrainEach
  <2>5. CASE DrainDone
    BY <2>5 DEF DrainDone
  <2>6. QED
    BY <1>3, <2>1, <2>2, <2>3, <2>4, <2>5 DEF TearDown
<1>4. CASE Receive
  <2>1. CASE ReadData
    <3>1. PICK n \in 0 .. Len(inbox) :
             /\ lines' = SubSeq(inbox, 1, n)
             /\ inbox' = SubSeq(inbox, n + 1, Len(inbox))
             /\ tail' \in {NoStream, stream}
      BY <2>1 DEF ReadData
    <3>2. Len(inbox) \in Nat /\ \A i \in 1 .. Len(inbox) : inbox[i] \in Line
      BY LenProperties, ElementOfSeq
    <3>3. lines' \in Seq(Line)
      <4>1. \A i \in 1 .. n : inbox[i] \in Line
        BY <3>2
      <4>2. SubSeq(inbox, 1, n) \in Seq(Line)
        BY <4>1, <3>2, SubSeqProperties
      <4>3. QED
        BY <4>2, <3>1
    <3>4. inbox' \in Seq(Line)
      <4>1. \A i \in n + 1 .. Len(inbox) : inbox[i] \in Line
        BY <3>2
      <4>2. SubSeq(inbox, n + 1, Len(inbox)) \in Seq(Line)
        BY <4>1, <3>2, SubSeqProperties
      <4>3. QED
        BY <4>2, <3>1
    <3>5. tail' \in Generations
      BY <3>1 DEF Generations
    <3>6. QED
      BY <2>1, <3>3, <3>4, <3>5 DEF ReadData
  <2>2. CASE ReadTimesOut
    BY <2>2 DEF ReadTimesOut
  <2>3. CASE ReadFails
    BY <2>3 DEF ReadFails
  <2>4. CASE ReadOverflows
    BY <2>4 DEF ReadOverflows, Generations
  <2>5. CASE HandleLine
    <3>1. lines' \in Seq(Line)
      BY <2>5, HeadTailProperties DEF HandleLine
    <3>2. counter' \in [Fates -> [Shares -> Nat]]
      <4>1. ASSUME NEW fate \in Fates, NEW p \in pending_shares,
                   counter' = Count(fate, p.share)
            PROVE  counter' \in [Fates -> [Shares -> Nat]]
        BY <4>1, CountType, SubmissionType
      <4>2. QED
        BY <2>5, <4>1 DEF HandleLine, PendingWith, Fates
    <3>3. QED
      BY <2>5, <3>1, <3>2 DEF HandleLine, PendingWith
  <2>6. CASE KeepaliveNotDue
    BY <2>6 DEF KeepaliveNotDue
  <2>7. CASE KeepaliveSent
    BY <2>7 DEF KeepaliveSent, Request, Generations
  <2>8. CASE KeepaliveFails
    BY <2>8 DEF KeepaliveFails
  <2>9. CASE NotSilent
    BY <2>9 DEF NotSilent
  <2>10. CASE SilentTooLong
    BY <2>10 DEF SilentTooLong
  <2>11. QED
    BY <1>4, <2>1, <2>2, <2>3, <2>4, <2>5, <2>6, <2>7, <2>8, <2>9, <2>10 DEF Receive
<1>5. ASSUME NEW w \in Workers, Submit(w) PROVE TypeOK'
  <2>1. CASE EnterSubmit(w)
    BY <2>1 DEF EnterSubmit
  <2>2. CASE BuildRequest(w)
    <3>1. hand[w] \in Submission
      BY <2>2 DEF BuildRequest, InFlightExact
    <3>2. [hand[w] EXCEPT !.sid = session_id, !.id = request_id] \in Submission
      BY <3>1 DEF Submission
    <3>3. hand' \in [Workers -> Submission \cup {Idle}]
      BY <2>2, <3>2 DEF BuildRequest
    <3>4. QED
      BY <2>2, <3>3 DEF BuildRequest
  <2>3. CASE WriteShare(w)
    <3>1. AsRequest(hand[w]) \in Request
      <4>1. hand[w] \in Submission
        BY <2>3 DEF WriteShare, InFlightExact
      <4>2. QED
        BY <4>1, SubmissionType DEF AsRequest, Request
    <3>2. QED
      BY <2>3, <3>1 DEF WriteShare, LockAfterWrite
  <2>4. CASE RegisterShare(w)
    <3>1. hand[w] \in Submission
      BY <2>4 DEF RegisterShare, InFlightExact
    <3>2. QED
      BY <2>4, <3>1 DEF RegisterShare
  <2>5. CASE RefuseShare(w)
    BY <2>5 DEF RefuseShare
  <2>6. CASE WriteFails(w)
    <3>1. AsRequest(hand[w]) \in Request
      <4>1. hand[w] \in Submission
        BY <2>6 DEF WriteFails, InFlightExact
      <4>2. QED
        BY <4>1, SubmissionType DEF AsRequest, Request
    <3>2. QED
      BY <2>6, <3>1 DEF WriteFails, LockAfterWrite
  <2>7. CASE CountUnsent(w)
    <3>1. counter' \in [Fates -> [Shares -> Nat]]
      <4>1. hand[w] \in Submission
        BY <2>7 DEF CountUnsent, InFlightExact
      <4>2. QED
        BY <2>7, <4>1, CountType, SubmissionType
           DEF CountUnsent, UnsentCounted, Fates
    <3>2. QED
      BY <2>7, <3>1 DEF CountUnsent
  <2>8. CASE LeaveSubmit(w)
    <3>1. IsFiniteSet(Inside) /\ w \in Inside
      BY <2>8, FS_Subset DEF LeaveSubmit, Inside
    <3>2. submits_in_flight # 0
      BY <3>1, FS_EmptySet DEF InFlightExact
    <3>3. QED
      BY <2>8, <3>2 DEF LeaveSubmit, InFlightDropped
  <2>9. QED
    BY <1>5, <2>1, <2>2, <2>3, <2>4, <2>5, <2>6, <2>7, <2>8 DEF Submit
<1>6. ASSUME NEW w \in Workers, NEW s \in Shares, FindShare(w, s)
     PROVE  TypeOK'
  <2>1. [share |-> s, job |-> current_job, sid |-> 0, id |-> 0] \in Submission
    BY SessionAssumption DEF Submission, Generations
  <2>2. hand' \in [Workers -> Submission \cup {Idle}]
    BY <1>6, <2>1 DEF FindShare
  <2>3. QED
    BY <1>6, <2>2 DEF FindShare
<1>7. CASE Pool
  <2>1. CASE \E r \in received : PoolAnswers(r)
    <3>1. PICK r \in received : PoolAnswers(r)
      BY <2>1
    <3>2. PICK a \in {"KEEPALIVED", "error", "OK"} :
            /\ received' = (received \ {r}) \cup {[r EXCEPT !.answer = a]}
            /\ inbox' = Append(inbox, [job |-> "none", id |-> r.id,
                                       status |-> a])
      BY <3>1 DEF PoolAnswers
    <3>3. r \in Request /\ r.id \in Nat
      BY DEF Request
    <3>4. [r EXCEPT !.answer = a] \in Request
      BY <3>3 DEF Request
    <3>5. [job |-> "none", id |-> r.id, status |-> a] \in Line
      BY <3>3 DEF Line
    <3>6. inbox' \in Seq(Line)
      BY <3>2, <3>5, AppendProperties
    <3>7. received' \subseteq Request
      BY <3>2, <3>4
    <3>8. QED
      BY <3>1, <3>6, <3>7 DEF PoolAnswers
  <2>2. CASE PoolPushesJob
    BY <2>2 DEF PoolPushesJob, Line
  <2>3. QED
    BY <1>7, <2>1, <2>2 DEF Pool
<1>8. CASE Exited \/ UNCHANGED vars
  BY <1>8 DEF Exited, vars
<1>9. QED
  BY <1>1, <1>2, <1>3, <1>4, <1>5, <1>6, <1>7, <1>8 DEF Next

(* Only entering and leaving submit_share changes who is inside it. *)
LEMMA InFlightStep == ConnInv /\ [Next]_vars => InFlightExact'
<1> SUFFICES ASSUME ConnInv, [Next]_vars PROVE InFlightExact'
  OBVIOUS
<1> USE SessionAssumption DEF ConnInv, InFlightExact
<1>1. IsFiniteSet(Inside)
  BY FS_Subset DEF Inside
<1>2. ASSUME UNCHANGED <<wk, hand, submits_in_flight>> PROVE InFlightExact'
  BY <1>2 DEF Inside
<1>3. ASSUME NEW w \in Workers, Submit(w) PROVE InFlightExact'
  <2>1. CASE EnterSubmit(w)
    <3>1. Inside' = Inside \cup {w} /\ w \notin Inside
      BY <2>1 DEF EnterSubmit, Inside, TypeOK, wkLabels
    <3>2. Cardinality(Inside') = Cardinality(Inside) + 1
      BY <1>1, <3>1, FS_AddElement
    <3>3. QED
      BY <2>1, <3>2 DEF EnterSubmit, TypeOK, wkLabels
  <2>2. CASE LeaveSubmit(w)
    <3>1. Inside' = Inside \ {w} /\ w \in Inside
      BY <2>2 DEF LeaveSubmit, Inside, TypeOK, wkLabels
    <3>2. Cardinality(Inside') = Cardinality(Inside) - 1
      BY <1>1, <3>1, FS_RemoveElement
    <3>3. QED
      BY <2>2, <3>2 DEF LeaveSubmit, InFlightDropped, TypeOK, wkLabels
  <2>3. CASE BuildRequest(w)
    <3>1. Inside' = Inside
      BY <2>3 DEF BuildRequest, Inside, TypeOK, wkLabels
    <3>2. [hand[w] EXCEPT !.sid = session_id, !.id = request_id] \in Submission
      BY <2>3 DEF BuildRequest, Submission, TypeOK
    <3>3. QED
      BY <2>3, <3>1, <3>2 DEF BuildRequest, TypeOK, wkLabels
  <2>4. CASE WriteShare(w) \/ RegisterShare(w) \/ RefuseShare(w)
             \/ WriteFails(w) \/ CountUnsent(w)
    <3>1. Inside' = Inside
      BY <2>4 DEF WriteShare, RegisterShare, RefuseShare, WriteFails,
           CountUnsent, Inside, TypeOK, wkLabels
    <3>2. QED
      BY <2>4, <3>1 DEF WriteShare, RegisterShare, RefuseShare, WriteFails,
           CountUnsent, TypeOK, wkLabels
  <2>5. QED
    BY <1>3, <2>1, <2>2, <2>3, <2>4 DEF Submit
<1>4. ASSUME NEW w \in Workers, NEW s \in Shares, FindShare(w, s)
      PROVE  InFlightExact'
  <2>1. Inside' = Inside
    BY <1>4 DEF FindShare, Inside, TypeOK, wkLabels
  <2>2. [share |-> s, job |-> current_job, sid |-> 0, id |-> 0] \in Submission
    BY DEF Submission, Generations, TypeOK
  <2>3. QED
    BY <1>4, <2>1, <2>2 DEF FindShare, TypeOK, wkLabels
<1>5. CASE Establish
  BY <1>2, <1>5 DEF Establish, Connect, ConnectFails, SendLogin,
       LoginAccepted, LoginFails, SetSession, SetJob, ClearStream
<1>6. CASE Rotate
  BY <1>2, <1>6 DEF Rotate, LoopTop, SettleFirstRead, RotationProceeds,
       RotationDeferred
<1>7. CASE TearDown
  BY <1>2, <1>7 DEF TearDown, ClearJob, DropStream, Drain, DrainEach,
       DrainDone
<1>8. CASE Receive
  BY <1>2, <1>8 DEF Receive, ReadData, ReadTimesOut, ReadFails,
       ReadOverflows, HandleLine, KeepaliveNotDue, KeepaliveSent,
       KeepaliveFails, NotSilent, SilentTooLong
<1>9. CASE Pool
  BY <1>2, <1>9 DEF Pool, PoolAnswers, PoolPushesJob
<1>10. CASE Exited \/ UNCHANGED vars
  BY <1>2, <1>10 DEF Exited, vars
<1>11. QED
  BY <1>3, <1>4, <1>5, <1>6, <1>7, <1>8, <1>9, <1>10 DEF Next

LEMMA WalletStep == ConnInv /\ WalletInv /\ [Next]_vars => WalletInv'
<1> SUFFICES ASSUME ConnInv, WalletInv, [Next]_vars PROVE WalletInv'
  OBVIOUS
<1> USE SessionAssumption DEF ConnInv, TypeOK, WalletInv, StreamInv,
        LiveLabels, LoginLabels, LoopLabels, Reading
<1>1. CASE Establish
  BY <1>1 DEF Establish, Connect, ConnectFails, SendLogin, LoginAccepted,
       LoginFails, SetSession, SetJob, ClearStream, AfterLogin,
       LoginWallet, CapturedUserWallet
<1>2. CASE Rotate
  BY <1>2 DEF Rotate, LoopTop, SettleFirstRead, RotationProceeds,
       RotationDeferred, beneficiary_address
<1>3. CASE TearDown
  BY <1>3 DEF TearDown, ClearJob, DropStream, Drain, DrainEach, DrainDone
<1>4. CASE Receive
  BY <1>4 DEF Receive, ReadData, ReadTimesOut, ReadFails, ReadOverflows,
       HandleLine, KeepaliveNotDue, KeepaliveSent, KeepaliveFails,
       NotSilent, SilentTooLong
<1>5. ASSUME NEW w \in Workers, Submit(w) PROVE WalletInv'
  BY <1>5 DEF Submit, EnterSubmit, BuildRequest, WriteShare, RegisterShare,
       RefuseShare, WriteFails, CountUnsent, LeaveSubmit
<1>6. ASSUME NEW w \in Workers, NEW s \in Shares, FindShare(w, s)
     PROVE  WalletInv'
  BY <1>6 DEF FindShare
<1>7. CASE Pool
  BY <1>7 DEF Pool, PoolAnswers, PoolPushesJob
<1>8. CASE Exited \/ UNCHANGED vars
  BY <1>8 DEF Exited, vars
<1>9. QED
  BY <1>1, <1>2, <1>3, <1>4, <1>5, <1>6, <1>7, <1>8 DEF Next

LEMMA TailStep == ConnInv /\ TailInv /\ [Next]_vars => TailInv'
<1> SUFFICES ASSUME ConnInv, TailInv, [Next]_vars PROVE TailInv'
  OBVIOUS
<1> USE SessionAssumption DEF ConnInv, TypeOK, TailInv, StreamInv,
        LiveLabels, LoginLabels, LoopLabels, Reading
<1>1. CASE Establish
  BY <1>1 DEF Establish, Connect, ConnectFails, SendLogin, LoginAccepted,
       LoginFails, SetSession, SetJob, ClearStream, AfterLogin,
       BufferAfterLogin
<1>2. CASE Rotate
  BY <1>2 DEF Rotate, LoopTop, SettleFirstRead, RotationProceeds,
       RotationDeferred
<1>3. CASE TearDown
  BY <1>3 DEF TearDown, ClearJob, DropStream, Drain, DrainEach, DrainDone
<1>4. CASE Receive
  BY <1>4 DEF Receive, ReadData, ReadTimesOut, ReadFails, ReadOverflows,
       HandleLine, KeepaliveNotDue, KeepaliveSent, KeepaliveFails,
       NotSilent, SilentTooLong
<1>5. ASSUME NEW w \in Workers, Submit(w) PROVE TailInv'
  BY <1>5 DEF Submit, EnterSubmit, BuildRequest, WriteShare, RegisterShare,
       RefuseShare, WriteFails, CountUnsent, LeaveSubmit
<1>6. ASSUME NEW w \in Workers, NEW s \in Shares, FindShare(w, s)
     PROVE  TailInv'
  BY <1>6 DEF FindShare
<1>7. CASE Pool
  BY <1>7 DEF Pool, PoolAnswers, PoolPushesJob
<1>8. CASE Exited \/ UNCHANGED vars
  BY <1>8 DEF Exited, vars
<1>9. QED
  BY <1>1, <1>2, <1>3, <1>4, <1>5, <1>6, <1>7, <1>8 DEF Next

LEMMA InitConn == Init => ConnInv
<1> SUFFICES ASSUME Init PROVE ConnInv
  OBVIOUS
<1> USE SessionAssumption DEF Init
<1>1. TypeOK
  BY EmptySeq DEF TypeOK, Generations, Fates, NoGate, rxLabels, wkLabels,
       Callers
<1>2. InFlightExact
  <2>1. Inside = {}
    BY DEF Inside
  <2>2. QED
    BY <2>1, FS_EmptySet DEF InFlightExact
<1>3. LockHeld /\ StreamInv /\ JobInv /\ HandInv
  BY DEF LockHeld, StreamInv, LiveLabels, LoginLabels, JobInv,
       JobOfLiveSession, HandInv
<1>4. PendingInv /\ OwnSession
  BY DEF PendingInv, PendingOnLiveStream, LoginLabels, OwnSession
<1>5. QED
  BY <1>1, <1>2, <1>3, <1>4 DEF ConnInv

(* The connection invariant holds in every reachable state. *)
THEOREM ConnInvariant == Spec => []ConnInv
<1>1. ConnInv /\ [Next]_vars => ConnInv'
  BY TypeStep, InFlightStep, LockStep, StreamStep, JobStep, HandStep,
     PendingStep, SessionStep DEF ConnInv
<1>2. QED
  BY InitConn, <1>1, PTL DEF Spec

(* The state of the connection, the receiver and the workers is always     *)
(* well typed; in particular the in-flight count dropped by submit_share's *)
(* guard never falls below zero.                                           *)
THEOREM TypeCorrect == Spec => []TypeOK
<1>1. ConnInv => TypeOK
  BY DEF ConnInv
<1>2. QED
  BY ConnInvariant, <1>1, PTL

(* No submission is ever written to a connection other than the one its    *)
(* job was issued on, or with another connection's session id.             *)
THEOREM SubmissionsInOwnSession == Spec => []OwnSession
<1>1. ConnInv => OwnSession
  BY DEF ConnInv
<1>2. QED
  BY ConnInvariant, <1>1, PTL

(* No pending submission outlives its connection. *)
THEOREM PendingNeverOutlivesStream == Spec => []PendingOnLiveStream
<1>1. ConnInv => PendingOnLiveStream
  BY DEF ConnInv, PendingInv
<1>2. QED
  BY ConnInvariant, <1>1, PTL

(* Workers are never given a job of a connection that is gone or not       *)
(* logged in.                                                              *)
THEOREM JobsOfLiveSession == Spec => []JobOfLiveSession
<1>1. ConnInv => JobOfLiveSession
  BY DEF ConnInv, JobInv
<1>2. QED
  BY ConnInvariant, <1>1, PTL

(* Whenever the receiver reads, the pool credits the beneficiary that the  *)
(* loop believes is active: no failed rotation, reconnect or late change   *)
(* of the schedule leaves the session logged in for somebody else, and the *)
(* user's wallet is never overwritten by a donation address.               *)
THEOREM WalletAlwaysCredited == Spec => []CreditedWallet
<1>1. Init => WalletInv
  BY SessionAssumption
     DEF Init, WalletInv, LoginLabels, LoopLabels, Reading
<1>2. ConnInv /\ WalletInv /\ [Next]_vars => WalletInv'
  BY WalletStep
<1>3. ConnInv /\ WalletInv => CreditedWallet
  BY SessionAssumption
     DEF ConnInv, TypeOK, WalletInv, LoginLabels, Reading, CreditedWallet
<1>4. QED
  BY ConnInvariant, <1>1, <1>2, <1>3, PTL DEF Spec

(* No line is ever put together from the bytes of two connections, although*)
(* the tear-down of a connection leaves its bytes in the receive buffer.   *)
THEOREM LinesNeverSpliced == Spec => []NoSplicedLine
<1>1. Init => TailInv
  BY DEF Init, TailInv, LoopLabels, Reading
<1>2. ConnInv /\ TailInv /\ [Next]_vars => TailInv'
  BY TailStep
<1>3. TailInv => NoSplicedLine
  BY DEF TailInv, Reading, NoSplicedLine
<1>4. QED
  BY ConnInvariant, <1>1, <1>2, <1>3, PTL DEF Spec
-----------------------------------------------------------------------------
(***************************************************************************)
(* The share ledger of the pool session: LedgerExact is an invariant of    *)
(* PoolSession, and PoolSession implements ShareLedger.  Both follow from  *)
(* one analysis: what each action does to the places of the shares.        *)
(***************************************************************************)

(* JSON-RPC ids identify submissions: the ids in use are distinct. *)
IdInv ==
    /\ \A p \in pending_shares : p.id < request_id
    /\ \A p, q \in pending_shares : p.id = q.id => p = q
    /\ \A w \in Workers : wk[w] \in {"write", "register"} =>
        /\ hand[w].id < request_id
        /\ \A p \in pending_shares : p.id # hand[w].id
    /\ \A v, w \in Workers :
        (/\ wk[v] \in {"write", "register"} /\ wk[w] \in {"write", "register"}
         /\ hand[v].id = hand[w].id)
        => v = w

(* No share is held twice or awaits two replies. *)
UniqueInv ==
    /\ \A v, w \in Workers : \A s \in Shares : Holds(v, s) /\ Holds(w, s) => v = w
    /\ \A p, q \in pending_shares \cup draining : p.share = q.share => p = q
    /\ draining # {} => rx = "drain_each"

SessionInv == ConnInv /\ IdInv /\ UniqueInv /\ LedgerExact

(* What a step may do to a share: nothing, or one move of the ledger. *)
Keeps(x) ==
    /\ InHand(x)' <=> InHand(x)
    /\ Waiting(x)' <=> Waiting(x)
    /\ \A f \in Fates : counter'[f][x] = counter[f][x]
    /\ x \in shares_found' <=> x \in shares_found

Found(s) ==
    /\ s \notin shares_found /\ s \in shares_found'
    /\ InHand(s)' /\ (Waiting(s)' <=> Waiting(s))
    /\ \A f \in Fates : counter'[f][s] = counter[f][s]

Sent(s) ==
    /\ InHand(s) /\ ~InHand(s)' /\ Waiting(s)'
    /\ \A f \in Fates : counter'[f][s] = counter[f][s]
    /\ s \in shares_found' <=> s \in shares_found

GivenUp(s) ==
    /\ InHand(s) /\ ~InHand(s)' /\ (Waiting(s)' <=> Waiting(s))
    /\ counter'["unsent"][s] = counter["unsent"][s] + 1
    /\ \A f \in Fates \ {"unsent"} : counter'[f][s] = counter[f][s]
    /\ s \in shares_found' <=> s \in shares_found

Settled(s, fate) ==
    /\ Waiting(s) /\ ~Waiting(s)' /\ (InHand(s)' <=> InHand(s))
    /\ counter'[fate][s] = counter[fate][s] + 1
    /\ \A f \in Fates \ {fate} : counter'[f][s] = counter[f][s]
    /\ s \in shares_found' <=> s \in shares_found

Verdicts == {"accepted", "rejected", "lost"}

OneMove ==
    \/ \A x \in Shares : Keeps(x)
    \/ \E s \in Shares :
        /\ \A x \in Shares \ {s} : Keeps(x)
        /\ Found(s) \/ Sent(s) \/ GivenUp(s) \/ \E f \in Verdicts : Settled(s, f)
-----------------------------------------------------------------------------
(* The effect of bumping one counter. *)
LEMMA CountEffect ==
    ASSUME TypeOK, NEW fate \in Fates, NEW s \in Shares,
           counter' = Count(fate, s)
    PROVE  /\ counter'[fate][s] = counter[fate][s] + 1
           /\ \A f \in Fates \ {fate} : counter'[f][s] = counter[f][s]
           /\ \A x \in Shares \ {s} : \A f \in Fates :
                counter'[f][x] = counter[f][x]
BY DEF TypeOK, Count

(* A step that leaves the bookkeeping alone keeps every share's place. *)
LEMMA FrameMove ==
    ASSUME UNCHANGED <<wk, hand, pending_shares, draining, counter, shares_found>>
    PROVE  OneMove
BY DEF OneMove, Keeps, InHand, Waiting, Holds

(* A step inside submit_share that keeps the share in hand. *)
LEMMA HoldMove ==
    ASSUME UNCHANGED <<pending_shares, draining, counter, shares_found>>,
           \A v \in Workers : \A s \in Shares : Holds(v, s)' <=> Holds(v, s)
    PROVE  OneMove
BY DEF OneMove, Keeps, InHand, Waiting

LEMMA FindMove ==
    ASSUME SessionInv, NEW w \in Workers, NEW s \in Shares, FindShare(w, s)
    PROVE  OneMove
<1> USE DEF SessionInv, ConnInv
<1>1. \A v \in Workers : \A x \in Shares :
        Holds(v, x)' <=> Holds(v, x) \/ (v = w /\ x = s)
  BY DEF FindShare, Holds, TypeOK
<1>2. Found(s)
  BY <1>1 DEF FindShare, Found, InHand, Waiting
<1>3. \A x \in Shares \ {s} : Keeps(x)
  BY <1>1 DEF FindShare, Keeps, InHand, Waiting
<1>4. QED
  BY <1>2, <1>3 DEF OneMove

LEMMA SubmitMove ==
    ASSUME SessionInv, NEW w \in Workers, Submit(w)
    PROVE  OneMove
<1> USE DEF SessionInv, ConnInv
<1>1. CASE EnterSubmit(w) \/ WriteShare(w) \/ RefuseShare(w) \/ WriteFails(w)
  <2>1. \A v \in Workers : \A s \in Shares : Holds(v, s)' <=> Holds(v, s)
    BY <1>1 DEF EnterSubmit, WriteShare, RefuseShare, WriteFails, Holds, TypeOK
  <2>2. QED
    BY <1>1, <2>1, HoldMove DEF EnterSubmit, WriteShare, RefuseShare, WriteFails
<1>2. CASE BuildRequest(w)
  <2>1. hand[w] \in Submission
    BY <1>2 DEF BuildRequest, InFlightExact
  <2>2. hand'[w].share = hand[w].share
    BY <1>2, <2>1 DEF BuildRequest, TypeOK, Submission
  <2>3. \A v \in Workers : \A s \in Shares : Holds(v, s)' <=> Holds(v, s)
    BY <1>2, <2>2 DEF BuildRequest, Holds, TypeOK
  <2>4. QED
    BY <1>2, <2>3, HoldMove DEF BuildRequest
<1>3. CASE LeaveSubmit(w)
  <2>1. \A v \in Workers : \A s \in Shares : Holds(v, s)' <=> Holds(v, s)
    BY <1>3 DEF LeaveSubmit, Holds, TypeOK
  <2>2. QED
    BY <1>3, <2>1, HoldMove DEF LeaveSubmit
<1>4. CASE RegisterShare(w)
  <2> DEFINE s == hand[w].share
  <2>1. s \in Shares
    BY <1>4, SubmissionType DEF RegisterShare, InFlightExact
  <2>2. Holds(w, s)
    BY <1>4 DEF RegisterShare, Holds
  <2>3. \A v \in Workers : \A x \in Shares :
          Holds(v, x)' <=> Holds(v, x) /\ v # w
    BY <1>4 DEF RegisterShare, Holds, TypeOK
  <2>4. \A x \in Shares : Waiting(x)' <=> Waiting(x) \/ x = s
    BY <1>4 DEF RegisterShare, Waiting
  <2>5. Sent(s)
    BY <1>4, <2>1, <2>2, <2>3, <2>4 DEF RegisterShare, Sent, InHand, UniqueInv
  <2>6. \A x \in Shares \ {s} : Keeps(x)
    <3>1. \A x \in Shares \ {s} : ~Holds(w, x)
      BY DEF Holds
    <3>2. QED
      BY <1>4, <2>3, <2>4, <3>1 DEF RegisterShare, Keeps, InHand
  <2>7. QED
    BY <2>1, <2>5, <2>6 DEF OneMove
<1>5. CASE CountUnsent(w)
  <2> DEFINE s == hand[w].share
  <2>1. s \in Shares
    BY <1>5, SubmissionType DEF CountUnsent, InFlightExact
  <2>2. Holds(w, s)
    BY <1>5 DEF CountUnsent, Holds
  <2>3. \A v \in Workers : \A x \in Shares :
          Holds(v, x)' <=> Holds(v, x) /\ v # w
    BY <1>5 DEF CountUnsent, Holds, TypeOK
  <2>4. \A x \in Shares : Waiting(x)' <=> Waiting(x)
    BY <1>5 DEF CountUnsent, Waiting
  <2>5. counter' = Count("unsent", s) /\ "unsent" \in Fates
    BY <1>5 DEF CountUnsent, UnsentCounted, Fates
  <2>6. GivenUp(s)
    BY <1>5, <2>1, <2>2, <2>3, <2>4, <2>5, CountEffect
       DEF CountUnsent, GivenUp, InHand, UniqueInv
  <2>7. \A x \in Shares \ {s} : Keeps(x)
    <3>1. \A x \in Shares \ {s} : ~Holds(w, x)
      BY DEF Holds
    <3>2. QED
      BY <1>5, <2>1, <2>3, <2>4, <2>5, <3>1, CountEffect
         DEF CountUnsent, Keeps, InHand
  <2>8. QED
    BY <2>1, <2>6, <2>7 DEF OneMove
<1>6. QED
  BY <1>1, <1>2, <1>3, <1>4, <1>5 DEF Submit

LEMMA DrainMove ==
    ASSUME SessionInv, Drain
    PROVE  OneMove
<1> USE DEF SessionInv, ConnInv
<1>1. draining = {} /\ pending_shares' \cup draining' = pending_shares
  BY DEF Drain, Drained, UniqueInv
<1>2. \A x \in Shares : Waiting(x)' <=> Waiting(x)
  BY <1>1 DEF Waiting
<1>3. QED
  BY <1>2 DEF Drain, OneMove, Keeps, InHand, Holds

LEMMA DrainEachMove ==
    ASSUME SessionInv, DrainEach
    PROVE  OneMove
<1> USE DEF SessionInv, ConnInv
<1>1. PICK p \in draining : /\ counter' = Count("lost", p.share)
                            /\ draining' = draining \ {p}
  BY DEF DrainEach
<1> DEFINE s == p.share
<1>2. s \in Shares /\ "lost" \in Fates
  BY DEF TypeOK, Submission, Fates
<1>3. \A x \in Shares : Waiting(x)' <=> Waiting(x) /\ x # s
  BY <1>1 DEF DrainEach, Waiting, UniqueInv, StreamInv, PendingInv,
        PendingOnLiveStream
<1>4. \A x \in Shares : InHand(x)' <=> InHand(x)
  BY DEF DrainEach, InHand, Holds
<1>5. Settled(s, "lost")
  BY <1>1, <1>2, <1>3, <1>4, CountEffect DEF DrainEach, Settled, Waiting
<1>6. \A x \in Shares \ {s} : Keeps(x)
  BY <1>1, <1>2, <1>3, <1>4, CountEffect DEF DrainEach, Keeps
<1>7. QED
  BY <1>2, <1>5, <1>6 DEF OneMove, Verdicts

LEMMA HandleMove ==
    ASSUME SessionInv, HandleLine
    PROVE  OneMove
<1> USE DEF SessionInv, ConnInv
<1> DEFINE m == Head(lines)
           fate == IF m.status = "OK" THEN "accepted" ELSE "rejected"
<1>1. fate \in Fates /\ fate \in Verdicts
  BY DEF Fates, Verdicts
<1>2. \A x \in Shares : InHand(x)' <=> InHand(x)
  BY DEF HandleLine, InHand, Holds
<1>3. CASE PendingWith(m.id) = {} /\ counter' = counter
  BY <1>2, <1>3 DEF HandleLine, OneMove, Keeps, Waiting
<1>4. CASE \E p \in PendingWith(m.id) : counter' = Count(fate, p.share)
  <2>1. PICK p \in PendingWith(m.id) : counter' = Count(fate, p.share)
    BY <1>4
  <2> DEFINE s == p.share
  <2>2. p \in pending_shares /\ s \in Shares
    BY <2>1 DEF PendingWith, TypeOK, Submission
  <2>3. PendingWith(m.id) = {p}
    BY <2>1 DEF PendingWith, IdInv
  <2>4. pending_shares' = pending_shares \ {p} /\ draining' = draining
    BY <2>3 DEF HandleLine
  <2>5. p \notin draining
    BY DEF HandleLine, UniqueInv
  <2>6. \A x \in Shares : Waiting(x)' <=> Waiting(x) /\ x # s
    BY <2>2, <2>4, <2>5 DEF Waiting, UniqueInv
  <2>7. Settled(s, fate)
    BY <1>1, <1>2, <2>1, <2>2, <2>6, CountEffect
       DEF HandleLine, Settled, Waiting
  <2>8. \A x \in Shares \ {s} : Keeps(x)
    BY <1>1, <1>2, <2>1, <2>2, <2>6, CountEffect DEF HandleLine, Keeps
  <2>9. QED
    BY <1>1, <2>2, <2>7, <2>8 DEF OneMove
<1>5. QED
  BY <1>3, <1>4 DEF HandleLine

(* Every step moves at most one share, one move of the ledger. *)
LEMMA Moves == SessionInv /\ [Next]_vars => OneMove
<1> SUFFICES ASSUME SessionInv, [Next]_vars PROVE OneMove
  OBVIOUS
<1>1. CASE Establish
  BY <1>1, FrameMove DEF Establish, Connect, ConnectFails, SendLogin,
     LoginAccepted, LoginFails, SetSession, SetJob, ClearStream
<1>2. CASE Rotate
  BY <1>2, FrameMove DEF Rotate, LoopTop, SettleFirstRead, RotationProceeds,
     RotationDeferred
<1>3. CASE ClearJob \/ DropStream \/ DrainDone
  BY <1>3, FrameMove DEF ClearJob, DropStream, DrainDone
<1>4. CASE Drain \/ DrainEach \/ HandleLine
  BY <1>4, DrainMove, DrainEachMove, HandleMove
<1>5. CASE Receive /\ ~HandleLine
  BY <1>5, FrameMove DEF Receive, ReadData, ReadTimesOut, ReadFails,
     ReadOverflows, KeepaliveNotDue, KeepaliveSent, KeepaliveFails,
     NotSilent, SilentTooLong
<1>6. ASSUME NEW w \in Workers, Submit(w) PROVE OneMove
  BY <1>6, SubmitMove
<1>7. ASSUME NEW w \in Workers, NEW s \in Shares, FindShare(w, s)
      PROVE  OneMove
  BY <1>7, FindMove
<1>8. CASE Pool
  BY <1>8, FrameMove DEF Pool, PoolAnswers, PoolPushesJob
<1>9. CASE Exited \/ UNCHANGED vars
  BY <1>9, FrameMove DEF Exited, vars
<1>10. QED
  BY <1>1, <1>2, <1>3, <1>4, <1>5, <1>6, <1>7, <1>8, <1>9
     DEF Next, TearDown
-----------------------------------------------------------------------------
LEMMA LedgerStep ==
    ASSUME SessionInv, TypeOK', OneMove
    PROVE  LedgerExact'
<1> USE DEF SessionInv, ConnInv
<1>1. \A f \in Fates, x \in Shares :
        counter[f][x] \in Nat /\ counter'[f][x] \in Nat
  BY DEF TypeOK
<1>2. \A x \in Shares : Keeps(x) => Total(x)' = Total(x)
  BY DEF Keeps, Total, Fates
<1>3. \A s \in Shares : Found(s) \/ Sent(s) => Total(s)' = Total(s)
  BY DEF Found, Sent, Total, Fates
<1>4. \A s \in Shares : GivenUp(s) => Total(s)' = Total(s) + 1
  <2> SUFFICES ASSUME NEW s \in Shares, GivenUp(s)
               PROVE  Total(s)' = Total(s) + 1
    OBVIOUS
  <2>1. /\ counter'["unsent"][s] = counter["unsent"][s] + 1
        /\ counter'["accepted"][s] = counter["accepted"][s]
        /\ counter'["rejected"][s] = counter["rejected"][s]
        /\ counter'["lost"][s] = counter["lost"][s]
    BY DEF GivenUp, Fates
  <2>2. QED
    BY <1>1, <2>1 DEF Total, Fates
<1>5. \A s \in Shares : \A f \in Verdicts :
        Settled(s, f) => Total(s)' = Total(s) + 1
  BY <1>1 DEF Settled, Verdicts, Total, Fates
<1> DEFINE Exact(x) ==
      \/ x \notin shares_found /\ ~InHand(x) /\ ~Waiting(x) /\ Total(x) = 0
      \/ x \in shares_found /\ InHand(x) /\ ~Waiting(x) /\ Total(x) = 0
      \/ x \in shares_found /\ ~InHand(x) /\ Waiting(x) /\ Total(x) = 0
      \/ x \in shares_found /\ ~InHand(x) /\ ~Waiting(x) /\ Total(x) = 1
<1>6. \A x \in Shares : Exact(x)
  BY DEF LedgerExact
<1>7. \A x \in Shares : Keeps(x) => Exact(x)'
  BY <1>2, <1>6 DEF Keeps
<1>8. \A s \in Shares : Found(s) => Exact(s)'
  BY <1>3, <1>6 DEF Found
<1>9. \A s \in Shares : Sent(s) => Exact(s)'
  BY <1>3, <1>6 DEF Sent
<1>10. \A s \in Shares : GivenUp(s) => Exact(s)'
  BY <1>4, <1>6 DEF GivenUp
<1>11. \A s \in Shares : \A f \in Verdicts : Settled(s, f) => Exact(s)'
  BY <1>5, <1>6 DEF Settled
<1>12. \A x \in Shares : Exact(x)'
  BY <1>7, <1>8, <1>9, <1>10, <1>11 DEF OneMove
<1>13. QED
  BY <1>12 DEF LedgerExact

(* A step that takes no request id and sends nothing leaves the ids alone. *)
LEMMA IdStep == SessionInv /\ [Next]_vars => IdInv'
<1> SUFFICES ASSUME SessionInv, [Next]_vars PROVE IdInv'
  OBVIOUS
<1> USE DEF SessionInv, ConnInv, TypeOK, IdInv, Submission, InFlightExact
<1>1. CASE Establish
  BY <1>1 DEF Establish, Connect, ConnectFails, SendLogin, LoginAccepted,
     LoginFails, SetSession, SetJob, ClearStream
<1>2. CASE Rotate
  BY <1>2 DEF Rotate, LoopTop, SettleFirstRead, RotationProceeds,
     RotationDeferred
<1>3. CASE TearDown
  BY <1>3 DEF TearDown, ClearJob, DropStream, Drain, DrainEach, DrainDone
<1>4. CASE Receive
  BY <1>4 DEF Receive, ReadData, ReadTimesOut, ReadFails, ReadOverflows,
     HandleLine, KeepaliveNotDue, KeepaliveSent, KeepaliveFails,
     NotSilent, SilentTooLong
<1>5. ASSUME NEW w \in Workers, Submit(w) PROVE IdInv'
  <2>1. CASE BuildRequest(w)
    BY <2>1 DEF BuildRequest
  <2>2. CASE RegisterShare(w)
    BY <2>2 DEF RegisterShare
  <2>3. CASE WriteShare(w)
    BY <2>3 DEF WriteShare
  <2>4. CASE \/ EnterSubmit(w) \/ RefuseShare(w) \/ WriteFails(w)
             \/ CountUnsent(w) \/ LeaveSubmit(w)
    <3>1. /\ \A v \in Workers : wk'[v] \in {"write", "register"} =>
                wk[v] \in {"write", "register"} /\ hand'[v] = hand[v]
          /\ pending_shares' = pending_shares /\ request_id' = request_id
      BY <2>4 DEF EnterSubmit, RefuseShare, WriteFails, CountUnsent,
         LeaveSubmit
    <3>2. QED
      BY <3>1
  <2>5. QED
    BY <1>5, <2>1, <2>2, <2>3, <2>4 DEF Submit
<1>6. ASSUME NEW w \in Workers, NEW s \in Shares, FindShare(w, s)
      PROVE  IdInv'
  BY <1>6 DEF FindShare
<1>7. CASE Pool
  BY <1>7 DEF Pool, PoolAnswers, PoolPushesJob
<1>8. CASE Exited \/ UNCHANGED vars
  BY <1>8 DEF Exited, vars
<1>9. QED
  BY <1>1, <1>2, <1>3, <1>4, <1>5, <1>6, <1>7, <1>8 DEF Next

(* A share enters a hand unfound, and pending_shares from one hand only. *)
LEMMA UniqueStep == SessionInv /\ [Next]_vars => UniqueInv'
<1> SUFFICES ASSUME SessionInv, [Next]_vars PROVE UniqueInv'
  OBVIOUS
<1> USE DEF SessionInv, ConnInv, TypeOK, UniqueInv, Submission,
        InFlightExact, Holds
<1>1. CASE Establish
  BY <1>1 DEF Establish, Connect, ConnectFails, SendLogin, LoginAccepted,
     LoginFails, SetSession, SetJob, ClearStream
<1>2. CASE Rotate
  BY <1>2 DEF Rotate, LoopTop, SettleFirstRead, RotationProceeds,
     RotationDeferred
<1>3. CASE TearDown
  BY <1>3 DEF TearDown, ClearJob, DropStream, Drain, Drained, DrainEach,
     DrainDone
<1>4. CASE Receive
  BY <1>4 DEF Receive, ReadData, ReadTimesOut, ReadFails, ReadOverflows,
     HandleLine, KeepaliveNotDue, KeepaliveSent, KeepaliveFails,
     NotSilent, SilentTooLong
<1>5. ASSUME NEW w \in Workers, Submit(w) PROVE UniqueInv'
  <2>1. CASE BuildRequest(w)
    BY <2>1 DEF BuildRequest
  <2>2. CASE RegisterShare(w)
    <3>1. hand[w].share \in Shares /\ InHand(hand[w].share)
      BY <2>2 DEF RegisterShare, InHand
    <3>2. ~Waiting(hand[w].share)
      BY <3>1 DEF LedgerExact
    <3>3. QED
      BY <2>2, <3>2 DEF RegisterShare, Waiting
  <2>3. CASE EnterSubmit(w) \/ WriteShare(w) \/ RefuseShare(w)
    BY <2>3 DEF EnterSubmit, WriteShare, RefuseShare
  <2>4. CASE WriteFails(w) \/ CountUnsent(w) \/ LeaveSubmit(w)
    BY <2>4, ZenonT(30) DEF WriteFails, CountUnsent, LeaveSubmit
  <2>5. QED
    BY <1>5, <2>1, <2>2, <2>3, <2>4 DEF Submit
<1>6. ASSUME NEW w \in Workers, NEW s \in Shares, FindShare(w, s)
      PROVE  UniqueInv'
  <2>1. ~InHand(s)
    BY <1>6 DEF FindShare, LedgerExact
  <2>2. QED
    BY <1>6, <2>1 DEF FindShare, InHand
<1>7. CASE Pool
  BY <1>7 DEF Pool, PoolAnswers, PoolPushesJob
<1>8. CASE Exited \/ UNCHANGED vars
  BY <1>8 DEF Exited, vars
<1>9. QED
  BY <1>1, <1>2, <1>3, <1>4, <1>5, <1>6, <1>7, <1>8 DEF Next
-----------------------------------------------------------------------------
LEMMA InitSession == Init => SessionInv
<1> SUFFICES ASSUME Init PROVE SessionInv
  OBVIOUS
<1>1. ConnInv
  BY InitConn
<1>2. IdInv /\ UniqueInv
  BY DEF Init, IdInv, UniqueInv, Holds
<1>3. \A s \in Shares : Total(s) = 0 /\ ~InHand(s) /\ ~Waiting(s)
  BY DEF Init, Total, Fates, InHand, Holds, Waiting
<1>4. QED
  BY <1>1, <1>2, <1>3 DEF Init, SessionInv, LedgerExact

THEOREM SessionInvariant == Spec => []SessionInv
<1>1. SessionInv /\ [Next]_vars /\ ConnInv' => SessionInv'
  BY Moves, LedgerStep, IdStep, UniqueStep DEF SessionInv, ConnInv
<1>2. QED
  BY ConnInvariant, InitSession, <1>1, PTL DEF Spec

(* At every moment, whatever replies, reconnects and rotations interleave, *)
(* each found share is in submit_share, awaits a reply or is counted, in   *)
(* exactly one of these and, if counted, once.                             *)
THEOREM LedgerIsExact == Spec => []LedgerExact
<1>1. SessionInv => LedgerExact
  BY DEF SessionInv
<1>2. QED
  BY SessionInvariant, <1>1, PTL
-----------------------------------------------------------------------------
LEMMA ZeroSum ==
    ASSUME NEW a \in Nat, NEW b \in Nat, NEW c \in Nat, NEW d \in Nat,
           a + b + c + d = 0
    PROVE  a = 0 /\ b = 0 /\ c = 0 /\ d = 0
OBVIOUS

(* How the ledger's moves look through Place. *)
LEMMA PlaceOf ==
    ASSUME SessionInv, NEW s \in Shares
    PROVE  /\ s \notin shares_found => Place(s) = "unfound"
           /\ InHand(s) => Place(s) = "in_hand"
           /\ Waiting(s) => Place(s) = "waiting"
           /\ InHand(s) \/ Waiting(s) \/ s \notin shares_found
                => \A f \in Fates : counter[f][s] = 0
<1>1. \A f \in Fates : counter[f][s] \in Nat
  BY DEF SessionInv, ConnInv, TypeOK
<1>2. InHand(s) \/ Waiting(s) \/ s \notin shares_found => Total(s) = 0
  BY DEF SessionInv, LedgerExact
<1>3. Total(s) = 0 => \A f \in Fates : counter[f][s] = 0
  <2> DEFINE a == counter["accepted"][s]
             b == counter["rejected"][s]
             c == counter["lost"][s]
             d == counter["unsent"][s]
  <2> SUFFICES ASSUME a + b + c + d = 0
               PROVE  a = 0 /\ b = 0 /\ c = 0 /\ d = 0
    BY DEF Total, Fates
  <2>1. a \in Nat /\ b \in Nat /\ c \in Nat /\ d \in Nat
    BY <1>1 DEF Fates
  <2> HIDE DEF a, b, c, d
  <2>2. QED
    BY <2>1, ZeroSum
<1>4. /\ InHand(s) => ~Waiting(s)
      /\ s \notin shares_found => ~InHand(s) /\ ~Waiting(s)
  BY DEF SessionInv, LedgerExact
<1>5. QED
  BY <1>2, <1>3, <1>4 DEF Place, Fates

LEMMA MoveRefines ==
    ASSUME SessionInv, SessionInv', OneMove
    PROVE  \/ \A x \in Shares : Place(x)' = Place(x)
           \/ \E s \in Shares :
                /\ \A x \in Shares \ {s} : Place(x)' = Place(x)
                /\ \/ Place(s) = "unfound" /\ Place(s)' = "in_hand"
                   \/ Place(s) = "in_hand" /\ Place(s)' \in {"waiting", "unsent"}
                   \/ Place(s) = "waiting" /\ Place(s)' \in Verdicts
<1>1. \A x \in Shares : Keeps(x) => Place(x)' = Place(x)
  BY DEF Keeps, Place, Fates
<1>2. \A s \in Shares : Found(s) =>
        Place(s) = "unfound" /\ Place(s)' = "in_hand"
  <2> SUFFICES ASSUME NEW s \in Shares, Found(s)
               PROVE  Place(s) = "unfound" /\ Place(s)' = "in_hand"
    OBVIOUS
  <2>1. Place(s) = "unfound" /\ \A f \in Fates : counter'[f][s] = 0
    BY PlaceOf DEF Found
  <2>2. InHand(s)' /\ ~Waiting(s)'
    BY DEF Found, SessionInv, LedgerExact
  <2>3. QED
    BY <2>1, <2>2 DEF Place, Fates
<1>3. \A s \in Shares : Sent(s) =>
        Place(s) = "in_hand" /\ Place(s)' = "waiting"
  <2> SUFFICES ASSUME NEW s \in Shares, Sent(s)
               PROVE  Place(s) = "in_hand" /\ Place(s)' = "waiting"
    OBVIOUS
  <2>1. Place(s) = "in_hand" /\ \A f \in Fates : counter'[f][s] = 0
    BY PlaceOf DEF Sent
  <2>2. Waiting(s)'
    BY DEF Sent
  <2>3. QED
    BY <2>1, <2>2 DEF Place, Fates
<1>4. \A s \in Shares : GivenUp(s) =>
        Place(s) = "in_hand" /\ Place(s)' = "unsent"
  <2> SUFFICES ASSUME NEW s \in Shares, GivenUp(s)
               PROVE  Place(s) = "in_hand" /\ Place(s)' = "unsent"
    OBVIOUS
  <2>1. Place(s) = "in_hand" /\ \A f \in Fates : counter[f][s] = 0
    BY PlaceOf DEF GivenUp
  <2>2. /\ counter'["unsent"][s] = 1
        /\ \A f \in Fates \ {"unsent"} : counter'[f][s] = 0
    BY <2>1 DEF GivenUp, Fates
  <2>3. QED
    BY <2>1, <2>2 DEF Place, Fates
<1>5. \A s \in Shares : \A f \in Verdicts : Settled(s, f) =>
        Place(s) = "waiting" /\ Place(s)' \in Verdicts
  <2> SUFFICES ASSUME NEW s \in Shares, NEW v \in Verdicts, Settled(s, v)
               PROVE  Place(s) = "waiting" /\ Place(s)' \in Verdicts
    OBVIOUS
  <2>1. Place(s) = "waiting" /\ \A f \in Fates : counter[f][s] = 0
    BY PlaceOf DEF Settled
  <2>2. /\ counter'[v][s] = 1
        /\ \A f \in Fates \ {v} : counter'[f][s] = 0
    BY <2>1 DEF Settled, Fates, Verdicts
  <2>3. QED
    BY <2>1, <2>2 DEF Place, Fates, Verdicts
<1>6. QED
  BY <1>1, <1>2, <1>3, <1>4, <1>5 DEF OneMove

LEMMA InitRefines == Init => Ledger!Init
<1> SUFFICES ASSUME Init PROVE Ledger!Init
  OBVIOUS
<1>1. \A s \in Shares : Place(s) = "unfound"
  BY InitSession, PlaceOf DEF Init
<1>2. QED
  BY <1>1 DEF Ledger!Init

LEMMA StepRefines ==
    ASSUME SessionInv, SessionInv', [Next]_vars
    PROVE  [Ledger!Next]_[s \in Shares |-> Place(s)]
<1> DEFINE place == [s \in Shares |-> Place(s)]
<1>1. OneMove
  BY Moves
<1>2. CASE \A x \in Shares : Place(x)' = Place(x)
  BY <1>2
<1>3. ASSUME NEW s \in Shares,
             \A x \in Shares \ {s} : Place(x)' = Place(x),
             \/ Place(s) = "unfound" /\ Place(s)' = "in_hand"
             \/ Place(s) = "in_hand" /\ Place(s)' \in {"waiting", "unsent"}
             \/ Place(s) = "waiting" /\ Place(s)' \in Verdicts
      PROVE  Ledger!Next
  <2>1. place' = [place EXCEPT ![s] = Place(s)'] /\ place[s] = Place(s)
    BY <1>3
  <2>2. CASE Place(s) = "unfound" /\ Place(s)' = "in_hand"
    BY <2>1, <2>2 DEF Ledger!Next, Ledger!Find, Ledger!Move
  <2>3. CASE Place(s) = "in_hand" /\ Place(s)' \in {"waiting", "unsent"}
    BY <2>1, <2>3 DEF Ledger!Next, Ledger!Send, Ledger!GiveUp, Ledger!Move
  <2>4. CASE Place(s) = "waiting" /\ Place(s)' \in Verdicts
    BY <2>1, <2>4
       DEF Ledger!Next, Ledger!Answer, Ledger!Lose, Ledger!Move, Verdicts
  <2>5. QED
    BY <1>3, <2>2, <2>3, <2>4
<1>4. QED
  BY <1>1, <1>2, <1>3, MoveRefines

(* The session implements the share ledger: no interleaving of receiver,   *)
(* workers and pool moves a share backwards, twice or along another path.  *)
THEOREM ImplementsLedger == Spec => LedgerRefined
<1>1. SessionInv /\ SessionInv' /\ [Next]_vars
        => [Ledger!Next]_[s \in Shares |-> Place(s)]
  BY StepRefines
<1>2. QED
  BY SessionInvariant, InitRefines, <1>1, PTL
     DEF Spec, LedgerRefined, Ledger!Spec
-----------------------------------------------------------------------------
(***************************************************************************)
(* The pool's replies and the rotation gate of PoolSession: a share is     *)
(* counted by the answer to its own submission, no reply overtakes the     *)
(* registration of what it answers, and a rotation that found nothing      *)
(* outstanding drops nothing that was.                                     *)
(***************************************************************************)

(* A share between FindShare and the end of submit_share. *)
Held(s) == \E w \in Workers : wk[w] # "mine" /\ hand[w].share = s

(* What rotation_settled has learnt when its first read gave zero: the     *)
(* shares then outstanding were all pending, and a share never returns to  *)
(* a worker's hand.                                                        *)
GateInv ==
    /\ IsFiniteSet(pending_shares)
    /\ gate.settled => rx \in {"clear_job", "drop_stream", "drain"}
    /\ gate.settled \/ (rx = "settle_2" /\ gate.in_flight = 0) =>
         \A s \in gate.early : s \in shares_found /\ ~Held(s)
    /\ gate.settled => \A p \in pending_shares : p.share \notin gate.early
-----------------------------------------------------------------------------
(* Only FindShare puts a share into a hand, and only one not yet found. *)
LEMMA HeldStep ==
    ASSUME SessionInv, [Next]_vars, NEW s \in Shares,
           s \in shares_found, ~Held(s)
    PROVE  s \in shares_found' /\ ~Held(s)'
<1> USE DEF SessionInv, ConnInv, TypeOK, Held, wkLabels
<1>1. ASSUME UNCHANGED <<wk, hand, shares_found>>
      PROVE  s \in shares_found' /\ ~Held(s)'
  BY <1>1
<1>2. CASE Establish
  BY <1>1, <1>2 DEF Establish, Connect, ConnectFails, SendLogin,
     LoginAccepted, LoginFails, SetSession, SetJob, ClearStream
<1>3. CASE Rotate
  BY <1>1, <1>3 DEF Rotate, LoopTop, SettleFirstRead, RotationProceeds,
     RotationDeferred
<1>4. CASE TearDown
  BY <1>1, <1>4 DEF TearDown, ClearJob, DropStream, Drain, DrainEach, DrainDone
<1>5. CASE Receive
  BY <1>1, <1>5 DEF Receive, ReadData, ReadTimesOut, ReadFails,
     ReadOverflows, HandleLine, KeepaliveNotDue, KeepaliveSent,
     KeepaliveFails, NotSilent, SilentTooLong
<1>6. ASSUME NEW w \in Workers, Submit(w)
      PROVE  s \in shares_found' /\ ~Held(s)'
  <2>1. CASE BuildRequest(w)
    <3>1. hand[w] \in Submission
      BY <2>1 DEF BuildRequest, InFlightExact
    <3>2. hand'[w].share = hand[w].share
      BY <2>1, <3>1 DEF BuildRequest, Submission
    <3>3. QED
      BY <2>1, <3>2 DEF BuildRequest
  <2>2. CASE LeaveSubmit(w)
    BY <2>2 DEF LeaveSubmit
  <2>3. CASE EnterSubmit(w) \/ WriteShare(w) \/ RegisterShare(w)
    BY <2>3 DEF EnterSubmit, WriteShare, RegisterShare
  <2>4. CASE RefuseShare(w) \/ WriteFails(w) \/ CountUnsent(w)
    BY <2>4 DEF RefuseShare, WriteFails, CountUnsent
  <2>5. QED
    BY <1>6, <2>1, <2>2, <2>3, <2>4 DEF Submit
<1>7. ASSUME NEW w \in Workers, NEW x \in Shares, FindShare(w, x)
      PROVE  s \in shares_found' /\ ~Held(s)'
  BY <1>7 DEF FindShare
<1>8. CASE Pool
  BY <1>1, <1>8 DEF Pool, PoolAnswers, PoolPushesJob
<1>9. CASE Exited \/ UNCHANGED vars
  BY <1>1, <1>9 DEF Exited, vars
<1>10. QED
  BY <1>2, <1>3, <1>4, <1>5, <1>6, <1>7, <1>8, <1>9 DEF Next

(* A first read of zero: nobody is inside submit_share, so what is         *)
(* outstanding is pending, hence found and in nobody's hand.               *)
LEMMA NobodyInside ==
    ASSUME SessionInv, submits_in_flight = 0, NEW s \in Outstanding
    PROVE  s \in shares_found /\ ~Held(s)
<1> USE SessionAssumption DEF SessionInv, ConnInv, TypeOK, InFlightExact
<1>1. Inside = {}
  <2>1. IsFiniteSet(Inside)
    BY FS_Subset DEF Inside
  <2>2. QED
    BY <2>1, FS_EmptySet
<1>2. PICK p \in pending_shares : p.share = s
  BY <1>1 DEF Outstanding, Inside
<1>3. s \in Shares /\ Waiting(s)
  BY <1>2, SubmissionType DEF Waiting
<1>4. s \in shares_found /\ ~InHand(s)
  BY <1>3 DEF LedgerExact
<1>5. \A w \in Workers : wk[w] # "mine" => wk[w] = "enter"
  BY <1>1 DEF Inside
<1>6. QED
  BY <1>4, <1>5 DEF Held, InHand, Holds

(* The gate's knowledge while the receiver is not at the gate. *)
LEMMA GateFrame ==
    ASSUME SessionInv, GateInv, [Next]_vars, SessionInv',
           gate' = gate,
           rx' = rx \/ (gate'.settled => rx' \in {"clear_job", "drop_stream", "drain"}),
           rx' = "settle_2" => rx = "settle_2",
           IsFiniteSet(pending_shares'),
           \A p \in pending_shares' : p \in pending_shares \/ Held(p.share)
    PROVE  GateInv'
<1>1. \A s \in gate.early : s \in Shares
  BY DEF SessionInv, ConnInv, TypeOK
<1>2. \A s \in gate.early : s \in shares_found /\ ~Held(s)
        => s \in shares_found' /\ ~Held(s)'
  BY <1>1, HeldStep
<1>3. QED
  BY <1>2 DEF GateInv

LEMMA GateStep ==
    SessionInv /\ GateInv /\ [Next]_vars /\ SessionInv' => GateInv'
<1> SUFFICES ASSUME SessionInv, GateInv, [Next]_vars, SessionInv'
             PROVE  GateInv'
  OBVIOUS
<1>1. /\ IsFiniteSet(pending_shares)
      /\ gate.settled => rx \in {"clear_job", "drop_stream", "drain"}
      /\ \A q : IsFiniteSet(pending_shares \ q)
  BY FS_Subset DEF GateInv
<1>2. CASE Establish
  BY <1>1, <1>2, GateFrame DEF Establish, Connect, ConnectFails, SendLogin,
     LoginAccepted, LoginFails, SetSession, SetJob, ClearStream, AfterLogin
<1>3. CASE LoopTop
  BY <1>1, <1>3, GateFrame DEF LoopTop
<1>4. CASE SettleFirstRead
  <2>1. gate' = [in_flight |-> submits_in_flight, early |-> Outstanding,
                 settled |-> FALSE]
    BY <1>4 DEF SettleFirstRead, GateRead
  <2>2. ASSUME submits_in_flight = 0, NEW s \in Outstanding
        PROVE  s \in shares_found' /\ ~Held(s)'
    BY <1>4, <2>2, NobodyInside DEF SettleFirstRead, Held
  <2>3. QED
    BY <1>1, <1>4, <2>1, <2>2 DEF SettleFirstRead, GateInv
<1>5. CASE RotationProceeds
  <2>1. /\ gate'.in_flight = gate.in_flight /\ gate'.early = gate.early
        /\ gate'.settled = NothingOutstanding
    BY <1>5 DEF RotationProceeds, SessionInv, ConnInv, TypeOK
  <2>2. NothingOutstanding => pending_shares = {} /\ gate.in_flight = 0
    BY <1>1, FS_EmptySet DEF NothingOutstanding, GateRead
  <2>3. QED
    BY <1>1, <1>5, <2>1, <2>2 DEF RotationProceeds, GateInv, Held
<1>6. CASE RotationDeferred
  BY <1>1, <1>6 DEF RotationDeferred, GateInv, NoGate
<1>7. CASE ClearJob \/ DropStream \/ DrainDone \/ DrainEach
  BY <1>1, <1>7, GateFrame DEF ClearJob, DropStream, DrainDone, DrainEach
<1>8. CASE Drain
  BY <1>1, <1>8 DEF Drain, GateInv, NoGate
<1>9. CASE HandleLine
  BY <1>1, <1>9, GateFrame DEF HandleLine
<1>10. CASE Receive /\ ~HandleLine
  BY <1>1, <1>10, GateFrame DEF Receive, ReadData, ReadTimesOut, ReadFails,
     ReadOverflows, KeepaliveNotDue, KeepaliveSent, KeepaliveFails,
     NotSilent, SilentTooLong
<1>11. ASSUME NEW w \in Workers, Submit(w) PROVE GateInv'
  <2>1. CASE RegisterShare(w)
    <3>1. IsFiniteSet(pending_shares')
      BY <1>1, <2>1, FS_AddElement DEF RegisterShare
    <3>2. \A p \in pending_shares' : p \in pending_shares \/ Held(p.share)
      BY <2>1 DEF RegisterShare, Held
    <3>3. QED
      BY <1>1, <2>1, <3>1, <3>2, GateFrame DEF RegisterShare
  <2>2. CASE ~RegisterShare(w)
    BY <1>1, <1>11, <2>2, GateFrame DEF Submit, EnterSubmit, BuildRequest,
       WriteShare, RefuseShare, WriteFails, CountUnsent, LeaveSubmit
  <2>3. QED
    BY <2>1, <2>2
<1>12. ASSUME NEW w \in Workers, NEW s \in Shares, FindShare(w, s)
       PROVE  GateInv'
  BY <1>1, <1>12, GateFrame DEF FindShare
<1>13. CASE Pool
  BY <1>1, <1>13, GateFrame DEF Pool, PoolAnswers, PoolPushesJob
<1>14. CASE Exited \/ UNCHANGED vars
  BY <1>1, <1>14, GateFrame DEF Exited, vars
<1>15. QED
  BY <1>2, <1>3, <1>4, <1>5, <1>6, <1>7, <1>8, <1>9, <1>10, <1>11, <1>12,
     <1>13, <1>14 DEF Next, Rotate, TearDown

(* A rotation that rotation_settled let through because both its reads     *)
(* gave zero drops no share that was inside submit_share or pending at the *)
(* first read, although the reads are not atomic and workers go on         *)
(* submitting between them and after them.                                 *)
THEOREM SettledIsSettled == Spec => []SettledMeansSettled
<1>1. Init => GateInv
  BY FS_EmptySet DEF Init, GateInv, NoGate
<1>2. SessionInv /\ GateInv /\ [Next]_vars /\ SessionInv' => GateInv'
  BY GateStep
<1>3. SessionInv /\ GateInv => SettledMeansSettled
  <2> SUFFICES ASSUME GateInv, gate.settled, NEW s \in gate.early,
                      s \in Outstanding
               PROVE  FALSE
    BY DEF SettledMeansSettled
  <2>1. ~Held(s) /\ \A p \in pending_shares : p.share # s
    BY DEF GateInv
  <2>2. QED
    BY <2>1 DEF Outstanding, Held
<1>4. QED
  BY SessionInvariant, <1>1, <1>2, <1>3, PTL DEF Spec
-----------------------------------------------------------------------------
(* What reached the pool: every request has an id of its own, and no share *)
(* is submitted twice.                                                     *)
RequestInv ==
    /\ request_id > 0
    /\ \A r \in received : r.id > 0 /\ r.id < request_id /\ r.gen <= generation
    /\ \A q, r \in received : q.id = r.id => q = r
    /\ \A w \in Workers : wk[w] \in {"write", "register"} =>
         hand[w].id > 0 /\ hand[w].id < request_id
    /\ \A w \in Workers : wk[w] = "write" =>
         \A r \in received : r.id # hand[w].id
    /\ \A r \in received : r.share # NoShare =>
         /\ r.answer # "KEEPALIVED" /\ r.share \in shares_found
         /\ \A w \in Workers : wk[w] \in {"enter", "build", "write"} =>
              hand[w].share # r.share
    /\ \A q, r \in received : q.share = r.share /\ r.share # NoShare => q = r

(* What is pending, draining or about to be registered reached the pool. *)
Requested(h) == \E r \in received : r.id = h.id /\ r.share = h.share

SentInv ==
    /\ \A p \in pending_shares \cup draining : Requested(p)
    /\ \A w \in Workers : wk[w] = "register" => Requested(hand[w])

(* The step adds the request `new` and changes no other. *)
Adds(new) == received' = received \cup {new}

(* The step answers the request r with a. *)
Answers(r, a) ==
    /\ r \in received /\ r.answer = "none"
    /\ a \in {"KEEPALIVED", "error", "OK"}
    /\ r.share # NoShare => a # "KEEPALIVED"
    /\ received' = (received \ {r}) \cup {[r EXCEPT !.answer = a]}

LEMMA AnswerEffect ==
    ASSUME SessionInv, NEW r, NEW a, Answers(r, a)
    PROVE  LET q == [r EXCEPT !.answer = a]
           IN  /\ q.id = r.id /\ q.share = r.share /\ q.gen = r.gen
               /\ q.answer = a /\ q \in Request
BY DEF SessionInv, ConnInv, TypeOK, Answers, Request

LEMMA RequestFrame ==
    ASSUME SessionInv, RequestInv, UNCHANGED <<received, wk, hand, shares_found>>,
           generation' \in Nat, generation' >= generation,
           request_id' \in Nat, request_id' >= request_id
    PROVE  RequestInv'
BY SMTT(30) DEF RequestInv, SessionInv, ConnInv, TypeOK, Submission, Request, Generations,
   InFlightExact

LEMMA RequestAnswered ==
    ASSUME SessionInv, RequestInv, NEW r, NEW a, Answers(r, a),
           UNCHANGED <<wk, hand, shares_found, generation, request_id>>
    PROVE  RequestInv'
<1> DEFINE q == [r EXCEPT !.answer = a]
<1>1. /\ q.id = r.id /\ q.share = r.share /\ q.gen = r.gen /\ q.answer = a
      /\ r \in received /\ received' = (received \ {r}) \cup {q}
      /\ r.share # NoShare => a # "KEEPALIVED"
  BY AnswerEffect DEF Answers
<1> HIDE DEF q
<1>2. QED
  BY <1>1 DEF RequestInv

LEMMA RequestStep ==
    SessionInv /\ RequestInv /\ [Next]_vars => RequestInv'
<1> SUFFICES ASSUME SessionInv, RequestInv, [Next]_vars PROVE RequestInv'
  OBVIOUS
<1>0. generation \in Nat /\ request_id \in Nat
  BY DEF SessionInv, ConnInv, TypeOK, Generations
<1>1. CASE Establish
  BY <1>0, <1>1, RequestFrame DEF Establish, Connect, ConnectFails, SendLogin,
     LoginAccepted, LoginFails, SetSession, SetJob, ClearStream
<1>2. CASE Rotate
  BY <1>0, <1>2, RequestFrame DEF Rotate, LoopTop, SettleFirstRead,
     RotationProceeds, RotationDeferred
<1>3. CASE TearDown
  BY <1>0, <1>3, RequestFrame DEF TearDown, ClearJob, DropStream, Drain,
     DrainEach, DrainDone
<1>4. CASE KeepaliveSent
  <2> DEFINE new == [share |-> NoShare, job |-> NoJob, sid |-> session_id,
                     id |-> request_id, gen |-> stream, answer |-> "none"]
  <2>1. /\ Adds(new) /\ new.id = request_id /\ new.share = NoShare
        /\ new.gen = stream
    BY <1>4 DEF KeepaliveSent, Adds
  <2> HIDE DEF new
  <2>2. stream <= generation
    BY <1>0 DEF SessionInv, ConnInv, StreamInv
  <2>3. request_id' = request_id + 1
        /\ UNCHANGED <<wk, hand, shares_found, generation>>
    BY <1>4 DEF KeepaliveSent
  <2>4. /\ \A r \in received : r.id \in Nat
        /\ \A w \in Workers : wk[w] # "mine" => hand[w].id \in Nat
    BY SubmissionType DEF SessionInv, ConnInv, TypeOK, Request, InFlightExact
  <2>5. QED
    BY <1>0, <2>1, <2>2, <2>3, <2>4 DEF Adds, RequestInv
<1>5. CASE Receive /\ ~KeepaliveSent
  BY <1>0, <1>5, RequestFrame DEF Receive, ReadData, ReadTimesOut, ReadFails,
     ReadOverflows, HandleLine, KeepaliveNotDue, KeepaliveFails,
     NotSilent, SilentTooLong
<1>6. ASSUME NEW w \in Workers, Submit(w) PROVE RequestInv'
  <2> USE DEF SessionInv, ConnInv, TypeOK
  <2>0. /\ \A r \in received : r.id \in Nat
        /\ \A v \in Workers : wk[v] # "mine" =>
             hand[v] \in Submission /\ hand[v].id \in Nat /\ hand[v].share \in Shares
    BY SubmissionType DEF Request, InFlightExact
  <2>1. CASE EnterSubmit(w)
    BY <2>0, <2>1 DEF EnterSubmit, RequestInv
  <2>2. CASE BuildRequest(w)
    <3>1. hand'[w].share = hand[w].share /\ hand'[w].id = request_id
      BY <2>0, <2>2 DEF BuildRequest, Submission
    <3>2. QED
      BY <1>0, <2>0, <2>2, <3>1 DEF BuildRequest, RequestInv
  <2>3. ASSUME wk[w] = "write", MayWrite(w), Adds(AsRequest(hand[w])),
               wk' = [wk EXCEPT ![w] = "register"]
                 \/ wk' = [wk EXCEPT ![w] = "unsent"],
               UNCHANGED <<hand, shares_found, generation, request_id>>
        PROVE  RequestInv'
    <3> DEFINE new == AsRequest(hand[w])
    <3>1. /\ new.id = hand[w].id /\ new.share = hand[w].share
          /\ new.gen = stream /\ new.answer = "none"
      BY DEF AsRequest
    <3>2. stream <= generation
      BY <1>0 DEF StreamInv
    <3>3. Holds(w, new.share) /\ new.share \in Shares /\ new.share # NoShare
      BY <2>0, <2>3, <3>1, SessionAssumption DEF Holds
    <3>4. new.share \in shares_found
      BY <3>3 DEF LedgerExact, InHand
    <3>5. \A v \in Workers : wk[v] \in {"enter", "build", "write"} /\ v # w
            => hand[v].share # new.share
      BY <2>0, <3>3 DEF UniqueInv, Holds
    <3>6. \A v \in Workers : wk[v] \in {"write", "register"} /\ v # w
            => hand[v].id # new.id
      BY <2>3, <3>1 DEF IdInv
    <3> HIDE DEF new
    <3>7. \A r \in received : r.id # new.id /\ r.share # new.share
      BY <2>3, <3>1, <3>3 DEF RequestInv
    <3>8. received' = received \cup {new}
      BY <2>3 DEF Adds, new
    <3>9. \A v \in Workers : v # w => wk'[v] = wk[v]
      BY <2>3
    <3>10. wk'[w] \in {"register", "unsent"}
      BY <2>3
    <3>11. UNCHANGED <<hand, shares_found, generation, request_id>>
           /\ hand[w].id > 0 /\ hand[w].id < request_id
      BY <2>3 DEF RequestInv
    <3>12. \A r \in received' :
             r.id > 0 /\ r.id < request_id' /\ r.gen <= generation'
      BY <3>1, <3>2, <3>8, <3>11 DEF RequestInv
    <3>13. \A q, r \in received' : q.id = r.id => q = r
      BY <3>7, <3>8 DEF RequestInv
    <3>14. \A v \in Workers : wk'[v] \in {"write", "register"} =>
             hand'[v].id > 0 /\ hand'[v].id < request_id'
      BY <3>9, <3>11 DEF RequestInv
    <3>15. \A v \in Workers : wk'[v] = "write" =>
             \A r \in received' : r.id # hand'[v].id
      BY <3>6, <3>8, <3>9, <3>10, <3>11 DEF RequestInv
    <3>16. \A r \in received' : r.share # NoShare =>
             /\ r.answer # "KEEPALIVED" /\ r.share \in shares_found'
             /\ \A v \in Workers : wk'[v] \in {"enter", "build", "write"} =>
                  hand'[v].share # r.share
      BY <3>1, <3>4, <3>5, <3>8, <3>9, <3>10, <3>11 DEF RequestInv
    <3>17. \A q, r \in received' : q.share = r.share /\ r.share # NoShare => q = r
      BY <3>7, <3>8 DEF RequestInv
    <3>18. QED
      BY <3>11, <3>12, <3>13, <3>14, <3>15, <3>16, <3>17 DEF RequestInv
  <2>4. CASE WriteShare(w)
    BY <2>3, <2>4 DEF WriteShare, Adds
  <2>5. ASSUME wk[w] # "mine", received' = received,
               wk' = [wk EXCEPT ![w] = "leave"]
                 \/ wk' = [wk EXCEPT ![w] = "unsent"],
               UNCHANGED <<hand, shares_found, generation, request_id>>
        PROVE  RequestInv'
    BY <2>0, <2>5 DEF RequestInv
  <2>6. CASE RegisterShare(w) \/ RefuseShare(w) \/ CountUnsent(w)
    BY <2>5, <2>6 DEF RegisterShare, RefuseShare, CountUnsent
  <2>7. CASE WriteFails(w)
    BY <2>3, <2>5, <2>7 DEF WriteFails, Adds
  <2>8. CASE LeaveSubmit(w)
    BY <2>0, <2>8 DEF LeaveSubmit, RequestInv
  <2>9. QED
    BY <1>6, <2>1, <2>2, <2>4, <2>6, <2>7, <2>8 DEF Submit
<1>7. ASSUME NEW w \in Workers, NEW s \in Shares, FindShare(w, s)
      PROVE  RequestInv'
  BY <1>7 DEF FindShare, RequestInv, SessionInv, ConnInv, TypeOK
<1>8. CASE Pool
  <2>1. CASE \E r \in received : PoolAnswers(r)
    <3>1. PICK r \in received : PoolAnswers(r)
      BY <2>1
    <3>2. PICK a : Answers(r, a)
      BY <3>1 DEF PoolAnswers, Answers
    <3>3. QED
      BY <3>1, <3>2, RequestAnswered DEF PoolAnswers
  <2>2. CASE PoolPushesJob
    BY <1>0, <2>2, RequestFrame DEF PoolPushesJob
  <2>3. QED
    BY <1>8, <2>1, <2>2 DEF Pool
<1>9. CASE Exited \/ UNCHANGED vars
  BY <1>0, <1>9, RequestFrame DEF Exited, vars
<1>10. QED
  BY <1>1, <1>2, <1>3, <1>4, <1>5, <1>6, <1>7, <1>8, <1>9 DEF Next

(* No request is forgotten by the pool, and an answer is final. *)
LEMMA ReceivedKept ==
    ASSUME SessionInv, [Next]_vars, NEW r \in received
    PROVE  \E q \in received' :
             /\ q.id = r.id /\ q.share = r.share /\ q.gen = r.gen
             /\ r.answer # "none" => q.answer = r.answer
<1>1. ASSUME received \subseteq received'
      PROVE  \E q \in received' :
               /\ q.id = r.id /\ q.share = r.share /\ q.gen = r.gen
               /\ r.answer # "none" => q.answer = r.answer
  BY <1>1
<1>2. CASE Establish
  BY <1>1, <1>2 DEF Establish, Connect, ConnectFails, SendLogin,
     LoginAccepted, LoginFails, SetSession, SetJob, ClearStream
<1>3. CASE Rotate
  BY <1>1, <1>3 DEF Rotate, LoopTop, SettleFirstRead, RotationProceeds,
     RotationDeferred
<1>4. CASE TearDown
  BY <1>1, <1>4 DEF TearDown, ClearJob, DropStream, Drain, DrainEach, DrainDone
<1>5. CASE Receive
  BY <1>1, <1>5 DEF Receive, ReadData, ReadTimesOut, ReadFails,
     ReadOverflows, HandleLine, KeepaliveNotDue, KeepaliveSent,
     KeepaliveFails, NotSilent, SilentTooLong
<1>6. ASSUME NEW w \in Workers, Submit(w) PROVE received \subseteq received'
  BY <1>6 DEF Submit, EnterSubmit, BuildRequest, WriteShare, RegisterShare,
     RefuseShare, WriteFails, CountUnsent, LeaveSubmit
<1>7. ASSUME NEW w \in Workers, NEW x \in Shares, FindShare(w, x)
      PROVE  received \subseteq received'
  BY <1>7 DEF FindShare
<1>8. ASSUME NEW t \in received, PoolAnswers(t)
      PROVE  \E q \in received' :
               /\ q.id = r.id /\ q.share = r.share /\ q.gen = r.gen
               /\ r.answer # "none" => q.answer = r.answer
  <2>1. PICK a : Answers(t, a)
    BY <1>8 DEF PoolAnswers, Answers
  <2> DEFINE q == [t EXCEPT !.answer = a]
  <2>2. /\ q.id = t.id /\ q.share = t.share /\ q.gen = t.gen
        /\ t.answer = "none" /\ received' = (received \ {t}) \cup {q}
    BY <2>1, AnswerEffect DEF Answers
  <2> HIDE DEF q
  <2>3. QED
    BY <2>2
<1>9. CASE PoolPushesJob \/ Exited \/ UNCHANGED vars
  BY <1>1, <1>9 DEF PoolPushesJob, Exited, vars
<1>10. QED
  BY <1>1, <1>2, <1>3, <1>4, <1>5, <1>6, <1>7, <1>8, <1>9 DEF Next, Pool

LEMMA RequestedKept ==
    ASSUME SessionInv, [Next]_vars, NEW h, Requested(h)
    PROVE  Requested(h)'
BY ReceivedKept DEF Requested

LEMMA SentStep ==
    SessionInv /\ SentInv /\ [Next]_vars => SentInv'
<1> SUFFICES ASSUME SessionInv, SentInv, [Next]_vars PROVE SentInv'
  OBVIOUS
<1>1. ASSUME pending_shares' \cup draining' \subseteq pending_shares \cup draining,
             \A w \in Workers : wk'[w] = "register" =>
                wk[w] = "register" /\ hand'[w] = hand[w]
      PROVE  SentInv'
  <2>1. \A p \in pending_shares \cup draining : Requested(p)'
    BY RequestedKept DEF SentInv
  <2>2. \A w \in Workers : wk[w] = "register" => Requested(hand[w])
    BY DEF SentInv
  <2>3. ASSUME NEW w \in Workers, wk'[w] = "register"
        PROVE  Requested(hand[w])'
    <3>1. PICK r \in received : r.id = hand[w].id /\ r.share = hand[w].share
      BY <1>1, <2>2, <2>3 DEF Requested
    <3>2. PICK q \in received' : q.id = r.id /\ q.share = r.share
      BY ReceivedKept
    <3>3. hand'[w] = hand[w]
      BY <1>1, <2>3
    <3>4. QED
      BY <3>1, <3>2, <3>3 DEF Requested
  <2>4. QED
    BY <1>1, <2>1, <2>3 DEF SentInv, Requested
<1>2. CASE Establish
  BY <1>1, <1>2 DEF Establish, Connect, ConnectFails, SendLogin,
     LoginAccepted, LoginFails, SetSession, SetJob, ClearStream
<1>3. CASE Rotate
  BY <1>1, <1>3 DEF Rotate, LoopTop, SettleFirstRead, RotationProceeds,
     RotationDeferred
<1>4. CASE TearDown
  BY <1>1, <1>4 DEF TearDown, ClearJob, DropStream, Drain, Drained,
     DrainEach, DrainDone
<1>5. CASE Receive
  BY <1>1, <1>5 DEF Receive, ReadData, ReadTimesOut, ReadFails,
     ReadOverflows, HandleLine, KeepaliveNotDue, KeepaliveSent,
     KeepaliveFails, NotSilent, SilentTooLong
<1>6. ASSUME NEW w \in Workers, Submit(w) PROVE SentInv'
  <2> USE DEF SessionInv, ConnInv, TypeOK
  <2>1. CASE WriteShare(w)
    <3>1. \A p \in pending_shares \cup draining : Requested(p)'
      BY RequestedKept DEF SentInv
    <3>2. AsRequest(hand[w]) \in received' /\ AsRequest(hand[w]).id = hand[w].id
          /\ AsRequest(hand[w]).share = hand[w].share
      BY <2>1 DEF WriteShare, AsRequest
    <3>3. Requested(hand[w])'
      BY <2>1, <3>2 DEF Requested, WriteShare
    <3>4. ASSUME NEW v \in Workers, wk'[v] = "register" PROVE v = w
      BY <2>1, <3>4, SessionAssumption DEF WriteShare, LockHeld
    <3>5. QED
      BY <2>1, <3>1, <3>3, <3>4 DEF SentInv, WriteShare
  <2>2. CASE RegisterShare(w)
    <3>1. received' = received /\ hand' = hand /\ draining' = draining
          /\ pending_shares' = pending_shares \cup {hand[w]}
          /\ wk[w] = "register" /\ wk' = [wk EXCEPT ![w] = "leave"]
      BY <2>2 DEF RegisterShare
    <3>2. \A v \in Workers : wk'[v] = "register" => wk[v] = "register"
      BY <3>1
    <3>3. \A p \in pending_shares' \cup draining' : Requested(p)
      BY <3>1 DEF SentInv
    <3>4. \A p \in pending_shares' \cup draining' : Requested(p)'
      BY <3>1, <3>3 DEF Requested
    <3>5. \A v \in Workers : wk'[v] = "register" => Requested(hand[v])
      BY <3>2 DEF SentInv
    <3>6. \A v \in Workers : wk'[v] = "register" => Requested(hand[v])'
      BY <3>1, <3>5 DEF Requested
    <3>7. QED
      BY <3>4, <3>6 DEF SentInv
  <2>3. CASE ~WriteShare(w) /\ ~RegisterShare(w)
    <3>1. \A v \in Workers : wk'[v] = "register" =>
                wk[v] = "register" /\ hand'[v] = hand[v]
      BY <1>6, <2>3 DEF Submit, EnterSubmit, BuildRequest,
         RefuseShare, WriteFails, CountUnsent, LeaveSubmit
    <3>2. QED
      BY <1>1, <1>6, <2>3, <3>1 DEF Submit, EnterSubmit, BuildRequest,
       RefuseShare, WriteFails, CountUnsent, LeaveSubmit
  <2>4. QED
    BY <2>1, <2>2, <2>3
<1>7. ASSUME NEW w \in Workers, NEW s \in Shares, FindShare(w, s)
      PROVE  SentInv'
  BY <1>1, <1>7 DEF FindShare, SessionInv, ConnInv, TypeOK
<1>8. CASE Pool
  BY <1>1, <1>8 DEF Pool, PoolAnswers, PoolPushesJob
<1>9. CASE Exited \/ UNCHANGED vars
  BY <1>1, <1>9 DEF Exited, vars
<1>10. QED
  BY <1>2, <1>3, <1>4, <1>5, <1>6, <1>7, <1>8, <1>9 DEF Next
-----------------------------------------------------------------------------
(* A line that answers a request of the pool's record. *)
AnswerLine(m) ==
    \E r \in received : r.id = m.id /\ r.answer = m.status /\ r.answer # "none"

(* The lines under way: each that has an id is the answer to the request   *)
(* of that id, no request is answered by two lines, and none outlives its  *)
(* connection.                                                             *)
LineInv ==
    /\ rx # "handle" => lines = <<>>
    /\ stream = NoStream => inbox = <<>> /\ account = NoWallet
    /\ \A i \in 1 .. Len(inbox) : inbox[i].id # 0 => AnswerLine(inbox[i])
    /\ \A i \in 1 .. Len(lines) : lines[i].id # 0 => AnswerLine(lines[i])
    /\ \A i, j \in 1 .. Len(inbox) :
         inbox[i].id # 0 /\ inbox[i].id = inbox[j].id => i = j
    /\ \A i, j \in 1 .. Len(lines) :
         lines[i].id # 0 /\ lines[i].id = lines[j].id => i = j
    /\ \A i \in 1 .. Len(lines), j \in 1 .. Len(inbox) :
         lines[i].id # 0 => lines[i].id # inbox[j].id

InboxHas(id) == \E i \in 1 .. Len(inbox) : inbox[i].id = id
LinesHas(id) == \E i \in 1 .. Len(lines) : lines[i].id = id
Registering(id) == \E w \in Workers : wk[w] = "register" /\ hand[w].id = id
Unsent(s) == \/ counter["unsent"][s] > 0
             \/ \E w \in Workers : wk[w] = "unsent" /\ hand[w].share = s

(* A submission whose answer is still to come, or under way, awaits it:    *)
(* it is pending, about to be registered under the lock that keeps the     *)
(* receiver from reading, or reported as not sent.                         *)
PairInv ==
    \A r \in received : r.share # NoShare =>
      /\ LinesHas(r.id) => PendingWith(r.id) # {} \/ Unsent(r.share)
      /\ \/ InboxHas(r.id)
         \/ stream # NoStream /\ r.gen = stream /\ r.answer = "none"
         => PendingWith(r.id) # {} \/ Registering(r.id) \/ Unsent(r.share)

(* The counters agree with the pool's answers. *)
CountInv ==
    \A s \in Shares :
      /\ counter["accepted"][s] > 0 =>
           \E r \in received : r.share = s /\ r.answer = "OK"
      /\ counter["rejected"][s] > 0 =>
           \E r \in received : r.share = s /\ r.answer = "error"
      /\ counter["lost"][s] > 0 => \E r \in received : r.share = s

ReplyInv == SessionInv /\ RequestInv /\ SentInv /\ LineInv /\ PairInv /\ CountInv
-----------------------------------------------------------------------------
LEMMA AnswerLineKept ==
    ASSUME SessionInv, [Next]_vars, NEW m, AnswerLine(m)
    PROVE  AnswerLine(m)'
<1>1. PICK r \in received : r.id = m.id /\ r.answer = m.status /\ r.answer # "none"
  BY DEF AnswerLine
<1>2. PICK q \in received' : q.id = r.id /\ q.answer = r.answer
  BY <1>1, ReceivedKept
<1>3. QED
  BY <1>1, <1>2 DEF AnswerLine

(* How a read splits the unread lines. *)
LEMMA ReadSplits ==
    ASSUME SessionInv, ReadData
    PROVE  \E n \in 0 .. Len(inbox) :
             /\ Len(inbox) \in Nat /\ Len(lines') = n
             /\ Len(inbox') = Len(inbox) - n
             /\ \A i \in 1 .. n : lines'[i] = inbox[i]
             /\ \A i \in 1 .. Len(inbox) - n : inbox'[i] = inbox[n + i]
<1> USE DEF SessionInv, ConnInv, TypeOK
<1>1. PICK n \in 0 .. Len(inbox) :
        /\ lines' = SubSeq(inbox, 1, n)
        /\ inbox' = SubSeq(inbox, n + 1, Len(inbox))
  BY DEF ReadData
<1>2. Len(inbox) \in Nat
  BY LenProperties
<1>3. Len(SubSeq(inbox, 1, n)) = n
      /\ \A i \in 1 .. n : SubSeq(inbox, 1, n)[i] = inbox[i]
  BY <1>2
<1>4. /\ Len(SubSeq(inbox, n + 1, Len(inbox))) = Len(inbox) - n
      /\ \A i \in 1 .. Len(inbox) - n :
           SubSeq(inbox, n + 1, Len(inbox))[i] = inbox[n + i]
  BY <1>2
<1>5. QED
  BY <1>1, <1>2, <1>3, <1>4

LEMMA HandleTakes ==
    ASSUME SessionInv, HandleLine
    PROVE  /\ Len(lines) \in Nat \ {0} /\ Head(lines) = lines[1]
           /\ Len(lines') = Len(lines) - 1
           /\ \A i \in 1 .. Len(lines) - 1 : lines'[i] = lines[i + 1]
BY HeadTailProperties, LenProperties
   DEF SessionInv, ConnInv, TypeOK, HandleLine

LEMMA AnswerAppends ==
    ASSUME SessionInv, NEW m \in Line, inbox' = Append(inbox, m)
    PROVE  /\ Len(inbox) \in Nat /\ Len(inbox') = Len(inbox) + 1
           /\ inbox'[Len(inbox) + 1] = m
           /\ \A i \in 1 .. Len(inbox) : inbox'[i] = inbox[i]
BY AppendProperties, LenProperties DEF SessionInv, ConnInv, TypeOK

LEMMA EmptyHasNothing ==
    ASSUME NEW q, q = <<>> PROVE Len(q) = 0
OBVIOUS

LEMMA LineFrame ==
    ASSUME SessionInv, LineInv, [Next]_vars,
           lines' = lines, inbox' = inbox \/ inbox' = <<>>,
           rx' # "handle" => lines = <<>>,
           stream' = NoStream => inbox' = <<>> /\ account' = NoWallet
    PROVE  LineInv'
<1>1. ASSUME NEW i \in 1 .. Len(inbox'), inbox'[i].id # 0
      PROVE  AnswerLine(inbox[i])'
  <2>1. inbox' = inbox
    BY <1>1, EmptyHasNothing
  <2>2. PICK m : m = inbox[i]
    OBVIOUS
  <2>3. AnswerLine(m)
    BY <1>1, <2>1, <2>2 DEF LineInv
  <2>4. AnswerLine(m)' /\ m = inbox'[i]
    BY <2>1, <2>2, <2>3, AnswerLineKept
  <2>5. QED
    BY <2>4 DEF AnswerLine
<1>2. ASSUME NEW i \in 1 .. Len(lines'), lines'[i].id # 0
      PROVE  AnswerLine(lines[i])'
  <2>2. PICK m : m = lines[i]
    OBVIOUS
  <2>3. AnswerLine(m)
    BY <1>2, <2>2 DEF LineInv
  <2>4. AnswerLine(m)' /\ m = lines'[i]
    BY <2>2, <2>3, AnswerLineKept
  <2>5. QED
    BY <2>4 DEF AnswerLine
<1>3. \A i \in 1 .. Len(inbox') : inbox' = inbox
  BY EmptyHasNothing
<1>4. /\ \A i, j \in 1 .. Len(inbox') :
           inbox'[i].id # 0 /\ inbox'[i].id = inbox'[j].id => i = j
      /\ \A i, j \in 1 .. Len(lines') :
           lines'[i].id # 0 /\ lines'[i].id = lines'[j].id => i = j
      /\ \A i \in 1 .. Len(lines'), j \in 1 .. Len(inbox') :
           lines'[i].id # 0 => lines'[i].id # inbox'[j].id
  BY <1>3 DEF LineInv
<1>5. QED
  BY <1>1, <1>2, <1>4 DEF LineInv

LEMMA LineRead ==
    ASSUME SessionInv, LineInv, ReadData
    PROVE  LineInv'
<1>1. PICK n \in 0 .. Len(inbox) :
        /\ Len(inbox) \in Nat /\ Len(lines') = n
        /\ Len(inbox') = Len(inbox) - n
        /\ \A i \in 1 .. n : lines'[i] = inbox[i]
        /\ \A i \in 1 .. Len(inbox) - n : inbox'[i] = inbox[n + i]
  BY ReadSplits
<1>2. /\ received' = received /\ stream' = stream /\ stream # NoStream
      /\ rx' # "handle" => lines' = <<>>
  BY DEF ReadData
<1>3. \A i \in 1 .. Len(inbox) : inbox[i].id # 0 => AnswerLine(inbox[i])
  BY DEF LineInv
<1>4. \A i \in 1 .. Len(lines') : lines'[i].id # 0 => AnswerLine(lines'[i])
  BY <1>1, <1>3
<1>5. \A i \in 1 .. Len(inbox') : n + i \in 1 .. Len(inbox)
  BY <1>1
<1>6. \A i \in 1 .. Len(inbox') : inbox'[i].id # 0 => AnswerLine(inbox'[i])
  BY <1>1, <1>3, <1>5
<1>7. \A i, j \in 1 .. Len(inbox') :
        inbox'[i].id # 0 /\ inbox'[i].id = inbox'[j].id => i = j
  <2> SUFFICES ASSUME NEW i \in 1 .. Len(inbox'), NEW j \in 1 .. Len(inbox'),
                      inbox'[i].id # 0, inbox'[i].id = inbox'[j].id
               PROVE  i = j
    OBVIOUS
  <2>1. inbox'[i] = inbox[n + i] /\ inbox'[j] = inbox[n + j]
    BY <1>1
  <2>2. n + i = n + j
    BY <1>5, <2>1 DEF LineInv
  <2>3. QED
    BY <1>1, <2>2
<1>8. \A i, j \in 1 .. Len(lines') :
        lines'[i].id # 0 /\ lines'[i].id = lines'[j].id => i = j
  BY <1>1 DEF LineInv
<1>9. ASSUME NEW i \in 1 .. Len(lines'), NEW j \in 1 .. Len(inbox'),
             lines'[i].id # 0, lines'[i].id = inbox'[j].id
      PROVE  FALSE
  <2>1. i \in 1 .. Len(inbox) /\ n + j \in 1 .. Len(inbox) /\ i # n + j
    BY <1>1, <1>5
  <2>2. lines'[i] = inbox[i] /\ inbox'[j] = inbox[n + j]
    BY <1>1
  <2>3. QED
    BY <1>9, <2>1, <2>2 DEF LineInv
<1>10. QED
  BY <1>2, <1>4, <1>6, <1>7, <1>8, <1>9 DEF LineInv, AnswerLine

LEMMA LineHandled ==
    ASSUME SessionInv, LineInv, HandleLine
    PROVE  LineInv'
<1>1. /\ Len(lines) \in Nat \ {0}
      /\ Len(lines') = Len(lines) - 1
      /\ \A i \in 1 .. Len(lines) - 1 : lines'[i] = lines[i + 1]
  BY HandleTakes
<1>2. /\ received' = received /\ inbox' = inbox /\ stream' = stream
      /\ account' = account
      /\ rx' # "handle" => lines' = <<>>
  BY DEF HandleLine
<1>3. \A i \in 1 .. Len(lines') :
        /\ i + 1 \in 1 .. Len(lines) /\ lines'[i] = lines[i + 1]
  BY <1>1
<1>4. \A i \in 1 .. Len(lines') : lines'[i].id # 0 => AnswerLine(lines'[i])
  BY <1>3 DEF LineInv
<1>5. \A i, j \in 1 .. Len(lines') :
        lines'[i].id # 0 /\ lines'[i].id = lines'[j].id => i = j
  <2> SUFFICES ASSUME NEW i \in 1 .. Len(lines'), NEW j \in 1 .. Len(lines'),
                      lines'[i].id # 0, lines'[i].id = lines'[j].id
               PROVE  i = j
    OBVIOUS
  <2>1. i + 1 = j + 1
    BY <1>3 DEF LineInv
  <2>2. QED
    BY <1>1, <2>1
<1>6. \A i \in 1 .. Len(lines'), j \in 1 .. Len(inbox') :
        lines'[i].id # 0 => lines'[i].id # inbox'[j].id
  <2> SUFFICES ASSUME NEW i \in 1 .. Len(lines'), NEW j \in 1 .. Len(inbox'),
                      lines'[i].id # 0
               PROVE  lines'[i].id # inbox'[j].id
    OBVIOUS
  <2>1. i + 1 \in 1 .. Len(lines) /\ lines'[i] = lines[i + 1]
    BY <1>3
  <2>2. j \in 1 .. Len(inbox) /\ inbox'[j] = inbox[j]
    BY <1>2
  <2>3. lines[i + 1].id # 0
    BY <2>1
  <2>4. lines[i + 1].id # inbox[j].id
    BY <2>1, <2>2, <2>3 DEF LineInv
  <2>5. QED
    BY <2>1, <2>2, <2>4
<1>7. \A i \in 1 .. Len(lines') : lines'[i].id # 0 => AnswerLine(lines[i])'
  BY <1>2, <1>4 DEF AnswerLine
<1>8. \A i \in 1 .. Len(inbox') : inbox'[i].id # 0 => AnswerLine(inbox[i])'
  BY <1>2 DEF LineInv, AnswerLine
<1>9. /\ rx' # "handle" => lines' = <<>>
      /\ stream' = NoStream => inbox' = <<>> /\ account' = NoWallet
      /\ \A i, j \in 1 .. Len(inbox') :
           inbox'[i].id # 0 /\ inbox'[i].id = inbox'[j].id => i = j
  BY <1>2 DEF LineInv
<1>10. QED
  BY <1>5, <1>6, <1>7, <1>8, <1>9 DEF LineInv

(* No line under way has the id of an unanswered request. *)
LEMMA UnansweredHasNoLine ==
    ASSUME RequestInv, LineInv, NEW r \in received, r.answer = "none"
    PROVE  ~InboxHas(r.id) /\ ~LinesHas(r.id)
<1>1. r.id # 0
  BY DEF RequestInv
<1>2. ASSUME NEW m, AnswerLine(m) PROVE m.id # r.id
  BY <1>2 DEF AnswerLine, RequestInv
<1>3. QED
  BY <1>1, <1>2 DEF LineInv, InboxHas, LinesHas

(* Appending a line whose id, if any, is that of no line under way. *)
LEMMA LineAppended ==
    ASSUME SessionInv, LineInv, [Next]_vars, NEW m \in Line,
           inbox' = Append(inbox, m), UNCHANGED <<lines, stream, rx>>,
           stream # NoStream,
           m.id # 0 => ~InboxHas(m.id) /\ ~LinesHas(m.id) /\ AnswerLine(m)'
    PROVE  LineInv'
<1>1. /\ Len(inbox) \in Nat /\ Len(inbox') = Len(inbox) + 1
      /\ inbox'[Len(inbox) + 1] = m
      /\ \A i \in 1 .. Len(inbox) : inbox'[i] = inbox[i]
  BY AnswerAppends
<1>2. \A i \in 1 .. Len(inbox') :
        \/ i \in 1 .. Len(inbox) /\ inbox'[i] = inbox[i]
        \/ i = Len(inbox) + 1 /\ inbox'[i] = m
  BY <1>1
<1>3. \A i \in 1 .. Len(inbox') : inbox'[i].id # 0 => AnswerLine(inbox[i])'
  <2>1. ASSUME NEW i \in 1 .. Len(inbox'), inbox'[i].id # 0
        PROVE  \E x : x = inbox'[i] /\ AnswerLine(x)'
    <3>1. PICK x : x = inbox'[i]
      OBVIOUS
    <3>2. CASE i \in 1 .. Len(inbox) /\ x = inbox[i]
      <4>1. AnswerLine(x)
        BY <2>1, <3>1, <3>2 DEF LineInv
      <4>2. QED
        BY <3>1, <4>1, AnswerLineKept
    <3>3. CASE x = m
      BY <2>1, <3>1, <3>3
    <3>4. QED
      BY <1>2, <3>1, <3>2, <3>3
  <2>2. QED
    BY <2>1 DEF AnswerLine
<1>4. \A i \in 1 .. Len(lines') : lines'[i].id # 0 => AnswerLine(lines[i])'
  <2>1. ASSUME NEW i \in 1 .. Len(lines'), lines'[i].id # 0
        PROVE  \E x : x = lines'[i] /\ AnswerLine(x)'
    <3>1. PICK x : x = lines[i]
      OBVIOUS
    <3>2. AnswerLine(x)
      BY <2>1, <3>1 DEF LineInv
    <3>3. QED
      BY <3>1, <3>2, AnswerLineKept
  <2>2. QED
    BY <2>1 DEF AnswerLine
<1>5. \A i, j \in 1 .. Len(inbox') :
        inbox'[i].id # 0 /\ inbox'[i].id = inbox'[j].id => i = j
  BY <1>2 DEF LineInv, InboxHas
<1>6. \A i \in 1 .. Len(lines'), j \in 1 .. Len(inbox') :
        lines'[i].id # 0 => lines'[i].id # inbox'[j].id
  BY <1>2 DEF LineInv, LinesHas
<1>7. /\ rx' # "handle" => lines' = <<>>
      /\ stream' = NoStream => inbox' = <<>> /\ account' = NoWallet
      /\ \A i, j \in 1 .. Len(lines') :
           lines'[i].id # 0 /\ lines'[i].id = lines'[j].id => i = j
  BY DEF LineInv
<1>8. QED
  BY <1>3, <1>4, <1>5, <1>6, <1>7 DEF LineInv

LEMMA LineStep ==
    SessionInv /\ RequestInv /\ LineInv /\ [Next]_vars => LineInv'
<1> SUFFICES ASSUME SessionInv, RequestInv, LineInv, [Next]_vars PROVE LineInv'
  OBVIOUS
<1>1. /\ rx # "handle" => lines = <<>>
      /\ stream = NoStream => inbox = <<>> /\ account = NoWallet
  BY DEF LineInv
<1>2. /\ rx \in LoginLabels => stream # NoStream
      /\ generation \in Nat
  BY DEF SessionInv, ConnInv, StreamInv, TypeOK, Generations
<1>3. CASE Establish
  BY <1>1, <1>2, <1>3, LineFrame DEF Establish, Connect, ConnectFails,
     SendLogin, LoginAccepted, LoginFails, SetSession, SetJob, ClearStream,
     LoginLabels
<1>4. CASE Rotate
  BY <1>1, <1>4, LineFrame DEF Rotate, LoopTop, SettleFirstRead,
     RotationProceeds, RotationDeferred
<1>5. CASE TearDown
  BY <1>1, <1>5, LineFrame DEF TearDown, ClearJob, DropStream, Drain,
     DrainEach, DrainDone
<1>6. CASE ReadData \/ HandleLine
  BY <1>6, LineRead, LineHandled
<1>7. CASE Receive /\ ~ReadData /\ ~HandleLine
  BY <1>1, <1>7, LineFrame DEF Receive, ReadTimesOut, ReadFails,
     ReadOverflows, KeepaliveNotDue, KeepaliveSent, KeepaliveFails,
     NotSilent, SilentTooLong
<1>8. ASSUME NEW w \in Workers, Submit(w) PROVE LineInv'
  BY <1>1, <1>8, LineFrame DEF Submit, EnterSubmit, BuildRequest, WriteShare,
     RegisterShare, RefuseShare, WriteFails, CountUnsent, LeaveSubmit
<1>9. ASSUME NEW w \in Workers, NEW s \in Shares, FindShare(w, s)
      PROVE  LineInv'
  BY <1>1, <1>9, LineFrame DEF FindShare
<1>10. ASSUME NEW r \in received, PoolAnswers(r) PROVE LineInv'
  <2>1. PICK a : Answers(r, a)
                 /\ inbox' = Append(inbox, [job |-> "none", id |-> r.id,
                                            status |-> a])
    BY <1>10 DEF PoolAnswers, Answers
  <2> DEFINE m == [job |-> "none", id |-> r.id, status |-> a]
             q == [r EXCEPT !.answer = a]
  <2>2. m \in Line /\ m.id = r.id /\ m.status = a
    BY <2>1 DEF Answers, Line, SessionInv, ConnInv, TypeOK, Request
  <2>3. q.id = r.id /\ q.answer = a /\ q \in received' /\ a # "none"
    BY <2>1, AnswerEffect DEF Answers
  <2>4. AnswerLine(m)'
    BY <2>2, <2>3 DEF AnswerLine
  <2>5. ~InboxHas(m.id) /\ ~LinesHas(m.id)
    BY <2>1, <2>2, UnansweredHasNoLine DEF Answers
  <2>6. UNCHANGED <<lines, stream, rx>> /\ stream # NoStream
    BY <1>10 DEF PoolAnswers
  <2> HIDE DEF m, q
  <2>7. QED
    BY <2>1, <2>2, <2>4, <2>5, <2>6, LineAppended DEF m
<1>11. CASE PoolPushesJob
  <2>1. PICK j \in {"good", "bad"} :
          inbox' = Append(inbox, [job |-> j, id |-> 0, status |-> "none"])
    BY <1>11 DEF PoolPushesJob
  <2> DEFINE m == [job |-> j, id |-> 0, status |-> "none"]
  <2>2. m \in Line /\ m.id = 0
    BY DEF Line
  <2>3. UNCHANGED <<lines, stream, rx>> /\ stream # NoStream
    BY <1>1, <1>11 DEF PoolPushesJob
  <2> HIDE DEF m
  <2>4. QED
    BY <2>1, <2>2, <2>3, LineAppended DEF m
<1>12. CASE Exited \/ UNCHANGED vars
  BY <1>1, <1>12, LineFrame DEF Exited, vars
<1>13. QED
  BY <1>3, <1>4, <1>5, <1>6, <1>7, <1>8, <1>9, <1>10, <1>11, <1>12
     DEF Next, Pool
-----------------------------------------------------------------------------
(* Counters only grow. *)
LEMMA CounterGrows ==
    ASSUME SessionInv, [Next]_vars, NEW f \in Fates, NEW s \in Shares
    PROVE  counter'[f][s] \in Nat /\ counter'[f][s] >= counter[f][s]
<1>1. OneMove
  BY Moves
<1>2. counter[f][s] \in Nat
  BY DEF SessionInv, ConnInv, TypeOK
<1>3. counter'[f][s] = counter[f][s] \/ counter'[f][s] = counter[f][s] + 1
  BY <1>1 DEF OneMove, Keeps, Found, Sent, GivenUp, Settled, Verdicts, Fates
<1>4. QED
  BY <1>2, <1>3

(* A share reported as not sent stays so. *)
LEMMA UnsentKept ==
    ASSUME SessionInv, [Next]_vars, NEW s \in Shares, Unsent(s)
    PROVE  Unsent(s)'
<1> USE DEF SessionInv, ConnInv, TypeOK
<1>1. CASE counter["unsent"][s] > 0
  BY <1>1, CounterGrows DEF Unsent, Fates
<1>2. ASSUME NEW v \in Workers, wk[v] = "unsent", hand[v].share = s
      PROVE  Unsent(s)'
  <2>1. ASSUME wk'[v] = wk[v], hand'[v] = hand[v] PROVE Unsent(s)'
    BY <1>2, <2>1 DEF Unsent
  <2>2. CASE Establish
    BY <2>1, <2>2 DEF Establish, Connect, ConnectFails, SendLogin,
       LoginAccepted, LoginFails, SetSession, SetJob, ClearStream
  <2>3. CASE Rotate
    BY <2>1, <2>3 DEF Rotate, LoopTop, SettleFirstRead, RotationProceeds,
       RotationDeferred
  <2>4. CASE TearDown
    BY <2>1, <2>4 DEF TearDown, ClearJob, DropStream, Drain, DrainEach,
       DrainDone
  <2>5. CASE Receive
    BY <2>1, <2>5 DEF Receive, ReadData, ReadTimesOut, ReadFails,
       ReadOverflows, HandleLine, KeepaliveNotDue, KeepaliveSent,
       KeepaliveFails, NotSilent, SilentTooLong
  <2>6. ASSUME NEW w \in Workers, Submit(w) PROVE Unsent(s)'
    <3>1. CASE w # v
      BY <2>1, <2>6, <3>1 DEF Submit, EnterSubmit, BuildRequest, WriteShare,
         RegisterShare, RefuseShare, WriteFails, CountUnsent, LeaveSubmit
    <3>2. CASE w = v
      <4>1. counter' = Count("unsent", s)
        BY <1>2, <2>6, <3>2 DEF Submit, EnterSubmit, BuildRequest, WriteShare,
           RegisterShare, RefuseShare, WriteFails, CountUnsent, LeaveSubmit,
           UnsentCounted
      <4>2. counter'["unsent"][s] = counter["unsent"][s] + 1
        BY <4>1, CountEffect DEF Fates
      <4>3. QED
        BY <4>2 DEF Unsent, Fates
    <3>3. QED
      BY <3>1, <3>2
  <2>7. ASSUME NEW w \in Workers, NEW x \in Shares, FindShare(w, x)
        PROVE  Unsent(s)'
    BY <1>2, <2>1, <2>7 DEF FindShare
  <2>8. CASE Pool
    BY <2>1, <2>8 DEF Pool, PoolAnswers, PoolPushesJob
  <2>9. CASE Exited \/ UNCHANGED vars
    BY <2>1, <2>9 DEF Exited, vars
  <2>10. QED
    BY <2>2, <2>3, <2>4, <2>5, <2>6, <2>7, <2>8, <2>9 DEF Next
<1>3. QED
  BY <1>1, <1>2 DEF Unsent

(* Is an answer to r still to come, or under way? *)
ToCome(r) == \/ InboxHas(r.id)
             \/ stream # NoStream /\ r.gen = stream /\ r.answer = "none"

(* What has to hold of one request. *)
Paired(r) ==
    /\ LinesHas(r.id) => PendingWith(r.id) # {} \/ Unsent(r.share)
    /\ ToCome(r) => PendingWith(r.id) # {} \/ Registering(r.id) \/ Unsent(r.share)

LEMMA PairByRequest ==
    PairInv <=> \A r \in received : r.share # NoShare => Paired(r)
BY DEF PairInv, Paired, ToCome

(* A step that neither reads nor answers keeps a request paired, if it     *)
(* takes nothing from pending_shares that is still to be answered.         *)
LEMMA PairFrame ==
    ASSUME SessionInv, [Next]_vars, NEW r \in received, r.share # NoShare, Paired(r),
           LinesHas(r.id)' => LinesHas(r.id),
           ToCome(r)' => ToCome(r),
           PendingWith(r.id) # {} /\ (LinesHas(r.id)' \/ ToCome(r)')
             => PendingWith(r.id)' # {},
           Registering(r.id) => Registering(r.id)' \/ PendingWith(r.id)' # {}
    PROVE  Paired(r)'
<1>1. r.share \in Shares
  BY DEF SessionInv, ConnInv, TypeOK, Request
<1>2. Unsent(r.share) => Unsent(r.share)'
  BY <1>1, UnsentKept
<1>3. QED
  BY <1>2 DEF Paired

(* Steps of the receiver that only touch the stream and the lines. *)
LEMMA PairReceiver ==
    ASSUME SessionInv, PairInv, [Next]_vars,
           UNCHANGED <<received, lines, wk, hand, pending_shares>>,
           inbox' = inbox \/ inbox' = <<>>,
           stream' = stream \/ stream' = NoStream
             \/ \A r \in received : r.gen # stream'
    PROVE  PairInv'
<1> SUFFICES ASSUME NEW r \in received, r.share # NoShare, Paired(r)
             PROVE  Paired(r)'
  BY PairByRequest DEF PairInv, Paired, ToCome
<1>1. LinesHas(r.id)' => LinesHas(r.id)
  BY DEF LinesHas
<1>2. InboxHas(r.id)' => InboxHas(r.id)
  BY EmptyHasNothing DEF InboxHas
<1>3. ToCome(r)' => ToCome(r)
  BY <1>2 DEF ToCome
<1>4. PendingWith(r.id)' = PendingWith(r.id) /\ Registering(r.id)' = Registering(r.id)
  BY DEF PendingWith, Registering
<1>5. QED
  BY <1>1, <1>3, <1>4, PairFrame

LEMMA PairHandled ==
    ASSUME ReplyInv, [Next]_vars, HandleLine
    PROVE  PairInv'
<1> USE DEF ReplyInv
<1> DEFINE m == Head(lines)
<1>1. /\ Len(lines) \in Nat \ {0} /\ m = lines[1]
      /\ Len(lines') = Len(lines) - 1
      /\ \A i \in 1 .. Len(lines) - 1 : lines'[i] = lines[i + 1]
  BY HandleTakes
<1>2. /\ UNCHANGED <<received, inbox, stream, wk, hand>>
      /\ pending_shares' = pending_shares \ PendingWith(m.id)
  BY DEF HandleLine
<1> HIDE DEF m
<1> SUFFICES ASSUME NEW r \in received, r.share # NoShare, Paired(r)
             PROVE  Paired(r)'
  BY <1>2, PairByRequest DEF PairInv, Paired, ToCome
<1>3. r.id # 0
  BY DEF RequestInv
<1>4. LinesHas(r.id)' => LinesHas(r.id) /\ m.id # r.id
  <2> SUFFICES ASSUME NEW i \in 1 .. Len(lines'), lines'[i].id = r.id
               PROVE  LinesHas(r.id) /\ m.id # r.id
    BY DEF LinesHas
  <2>1. /\ i + 1 \in 1 .. Len(lines) /\ lines[i + 1].id = r.id
        /\ 1 \in 1 .. Len(lines) /\ i + 1 # 1
    BY <1>1
  <2>2. QED
    BY <1>1, <1>3, <2>1 DEF LinesHas, LineInv
<1>5. LinesHas(m.id)
  BY <1>1 DEF LinesHas
<1>6. ToCome(r)' => ToCome(r) /\ m.id # r.id
  <2>1. ToCome(r)' => ToCome(r)
    BY <1>2 DEF ToCome, InboxHas
  <2>2. InboxHas(r.id) => m.id # r.id
    BY <1>1, <1>3 DEF InboxHas, LineInv
  <2>3. r.answer = "none" => m.id # r.id
    BY <1>5, UnansweredHasNoLine
  <2>4. QED
    BY <2>1, <2>2, <2>3 DEF ToCome
<1>7. m.id # r.id => PendingWith(r.id)' = PendingWith(r.id)
  BY <1>2 DEF PendingWith
<1>8. Registering(r.id)' = Registering(r.id)
  BY <1>2 DEF Registering
<1>9. QED
  BY <1>4, <1>6, <1>7, <1>8, PairFrame

LEMMA PairRead ==
    ASSUME ReplyInv, [Next]_vars, ReadData
    PROVE  PairInv'
<1> USE DEF ReplyInv
<1>1. PICK n \in 0 .. Len(inbox) :
        /\ Len(inbox) \in Nat /\ Len(lines') = n
        /\ Len(inbox') = Len(inbox) - n
        /\ \A i \in 1 .. n : lines'[i] = inbox[i]
        /\ \A i \in 1 .. Len(inbox) - n : inbox'[i] = inbox[n + i]
  BY ReadSplits
<1>2. /\ UNCHANGED <<received, stream, wk, hand, pending_shares, counter>>
      /\ lock = "free"
  BY DEF ReadData
<1>3. ASSUME NEW id PROVE LinesHas(id)' \/ InboxHas(id)' => InboxHas(id)
  <2>1. LinesHas(id)' => InboxHas(id)
    BY <1>1 DEF LinesHas, InboxHas
  <2>2. \A i \in 1 .. Len(inbox') :
          n + i \in 1 .. Len(inbox) /\ inbox'[i] = inbox[n + i]
    BY <1>1
  <2>3. InboxHas(id)' => InboxHas(id)
    BY <2>2 DEF InboxHas
  <2>4. QED
    BY <2>1, <2>3
<1>4. \A id : ~Registering(id)
  BY <1>2, SessionAssumption
     DEF Registering, SessionInv, ConnInv, LockHeld
<1> SUFFICES ASSUME NEW r \in received, r.share # NoShare, Paired(r)
             PROVE  Paired(r)'
  BY <1>2, PairByRequest DEF PairInv, Paired, ToCome
<1>5. LinesHas(r.id)' \/ ToCome(r)' => ToCome(r)
  BY <1>2, <1>3 DEF ToCome
<1>6. PendingWith(r.id)' = PendingWith(r.id) /\ Unsent(r.share)' = Unsent(r.share)
  BY <1>2 DEF PendingWith, Unsent
<1>7. QED
  BY <1>4, <1>5, <1>6 DEF Paired

(* A request added for a share in hand. *)
LEMMA PairWritten ==
    ASSUME ReplyInv, [Next]_vars, NEW w \in Workers,
           wk[w] = "write", Adds(AsRequest(hand[w])),
           wk' = [wk EXCEPT ![w] = "register"]
             \/ wk' = [wk EXCEPT ![w] = "unsent"],
           UNCHANGED <<hand, pending_shares, inbox, lines, stream>>
    PROVE  PairInv'
<1> USE DEF ReplyInv, SessionInv, ConnInv, TypeOK
<1>0. PICK new : new = AsRequest(hand[w])
  OBVIOUS
<1>1. /\ new.id = hand[w].id /\ new.share = hand[w].share
      /\ received' = received \cup {new}
  BY <1>0 DEF AsRequest, Adds
<1>2. ASSUME NEW r \in received, r.share # NoShare PROVE Paired(r)'
  <2>1. Paired(r)
    BY <1>2, PairByRequest
  <2>2. LinesHas(r.id)' = LinesHas(r.id) /\ ToCome(r)' = ToCome(r)
        /\ PendingWith(r.id)' = PendingWith(r.id)
    BY DEF LinesHas, ToCome, InboxHas, PendingWith
  <2>3. Registering(r.id) => Registering(r.id)'
    BY DEF Registering
  <2>4. QED
    BY <1>2, <2>1, <2>2, <2>3, PairFrame
<1>3. ~LinesHas(new.id)
  <2>1. \A m : AnswerLine(m) => m.id # new.id
    BY <1>1 DEF AnswerLine, RequestInv
  <2>2. new.id # 0
    BY <1>1 DEF RequestInv
  <2>3. QED
    BY <2>1, <2>2 DEF LinesHas, LineInv
<1>4. ~LinesHas(new.id)'
  BY <1>3 DEF LinesHas
<1>5. Registering(new.id)' \/ Unsent(new.share)'
  BY <1>1 DEF Registering, Unsent
<1>6. Paired(new)'
  BY <1>4, <1>5 DEF Paired
<1>7. \A r \in received' : r.share # NoShare => Paired(r)'
  BY <1>1, <1>2, <1>6
<1>8. QED
  BY <1>7 DEF PairInv, Paired, ToCome

LEMMA PairSubmit ==
    ASSUME ReplyInv, [Next]_vars, NEW w \in Workers, Submit(w)
    PROVE  PairInv'
<1> USE DEF ReplyInv, SessionInv, ConnInv, TypeOK
<1>1. ASSUME UNCHANGED <<received, lines, inbox, stream>>,
             \A r \in received : PendingWith(r.id) # {} => PendingWith(r.id)' # {},
             \A r \in received : Registering(r.id) =>
                Registering(r.id)' \/ PendingWith(r.id)' # {}
      PROVE  PairInv'
  <2>1. ASSUME NEW r \in received, r.share # NoShare PROVE Paired(r)'
    <3>1. Paired(r)
      BY <2>1, PairByRequest
    <3>2. LinesHas(r.id)' = LinesHas(r.id) /\ ToCome(r)' = ToCome(r)
      BY <1>1 DEF LinesHas, ToCome, InboxHas
    <3>3. QED
      BY <1>1, <2>1, <3>1, <3>2, PairFrame
  <2>2. QED
    BY <1>1, <2>1 DEF PairInv, Paired, ToCome
<1>2. CASE WriteShare(w)
  BY <1>2, PairWritten DEF WriteShare, Adds
<1>3. CASE RegisterShare(w)
  <2>1. /\ UNCHANGED <<received, lines, inbox, stream, hand>>
        /\ pending_shares' = pending_shares \cup {hand[w]}
        /\ wk' = [wk EXCEPT ![w] = "leave"]
    BY <1>3 DEF RegisterShare
  <2>2. ASSUME NEW r \in received, PendingWith(r.id) # {}
        PROVE  PendingWith(r.id)' # {}
    BY <2>1, <2>2 DEF PendingWith
  <2>3. ASSUME NEW r \in received, Registering(r.id)
        PROVE  Registering(r.id)' \/ PendingWith(r.id)' # {}
    BY <2>1, <2>3 DEF Registering, PendingWith
  <2>4. QED
    BY <1>1, <2>1, <2>2, <2>3
<1>4. ASSUME UNCHANGED <<received, lines, inbox, stream, pending_shares>>,
             \A v \in Workers : wk[v] = "register" =>
                wk'[v] = "register" /\ hand'[v] = hand[v]
      PROVE  PairInv'
  <2>1. \A r \in received : PendingWith(r.id)' = PendingWith(r.id)
    BY <1>4 DEF PendingWith
  <2>2. \A r \in received : Registering(r.id) => Registering(r.id)'
    BY <1>4 DEF Registering
  <2>3. QED
    BY <1>1, <1>4, <2>1, <2>2
<1>5. CASE WriteFails(w)
  <2>1. CASE received' = received
    BY <1>4, <1>5, <2>1 DEF WriteFails
  <2>2. CASE Adds(AsRequest(hand[w]))
    BY <1>5, <2>2, PairWritten DEF WriteFails
  <2>3. QED
    BY <1>5, <2>1, <2>2 DEF WriteFails, Adds
<1>6. CASE EnterSubmit(w) \/ RefuseShare(w) \/ CountUnsent(w) \/ LeaveSubmit(w)
  BY <1>4, <1>6 DEF EnterSubmit, RefuseShare, CountUnsent, LeaveSubmit
<1>7. CASE BuildRequest(w)
  BY <1>4, <1>7 DEF BuildRequest
<1>8. QED
  BY <1>2, <1>3, <1>5, <1>6, <1>7 DEF Submit

LEMMA PairAnswered ==
    ASSUME ReplyInv, [Next]_vars, NEW t \in received, PoolAnswers(t)
    PROVE  PairInv'
<1> USE DEF ReplyInv
<1>1. PICK a : Answers(t, a)
               /\ inbox' = Append(inbox, [job |-> "none", id |-> t.id,
                                          status |-> a])
  BY DEF PoolAnswers, Answers
<1> DEFINE m == [job |-> "none", id |-> t.id, status |-> a]
           q == [t EXCEPT !.answer = a]
<1>2. m \in Line /\ m.id = t.id
  BY <1>1 DEF Answers, Line, SessionInv, ConnInv, TypeOK, Request
<1>3. /\ q.id = t.id /\ q.share = t.share /\ received' = (received \ {t}) \cup {q}
  BY <1>1, AnswerEffect DEF Answers
<1>4. inbox' = Append(inbox, m)
  BY <1>1
<1> HIDE DEF m, q
<1>5. \A id : InboxHas(id)' <=> InboxHas(id) \/ id = t.id
  <2>1. /\ Len(inbox) \in Nat /\ Len(inbox') = Len(inbox) + 1
        /\ inbox'[Len(inbox) + 1] = m
        /\ \A i \in 1 .. Len(inbox) : inbox'[i] = inbox[i]
    BY <1>2, <1>4, AnswerAppends
  <2>2. \A i \in 1 .. Len(inbox') : i \in 1 .. Len(inbox) \/ i = Len(inbox) + 1
    BY <2>1
  <2>3. \A i \in 1 .. Len(inbox) : i \in 1 .. Len(inbox')
    BY <2>1
  <2>4. Len(inbox) + 1 \in 1 .. Len(inbox')
    BY <2>1
  <2>5. QED
    BY <1>2, <2>1, <2>2, <2>3, <2>4 DEF InboxHas
<1>6. UNCHANGED <<lines, stream, wk, hand, pending_shares, counter>>
      /\ stream # NoStream /\ t.gen = stream /\ t.answer = "none"
  BY DEF PoolAnswers
<1>7. \A id : /\ LinesHas(id)' = LinesHas(id) /\ PendingWith(id)' = PendingWith(id)
              /\ Registering(id)' = Registering(id) /\ Unsent(id)' = Unsent(id)
  BY <1>6 DEF LinesHas, PendingWith, Registering, Unsent
<1>8. ASSUME NEW r \in received \ {t}, r.share # NoShare PROVE Paired(r)'
  <2>1. Paired(r)
    BY <1>8, PairByRequest
  <2>2. r.id # t.id
    BY DEF RequestInv
  <2>3. ToCome(r)' => ToCome(r)
    BY <1>5, <1>6, <2>2 DEF ToCome
  <2>4. QED
    BY <1>7, <2>1, <2>3 DEF Paired
<1>9. ASSUME t.share # NoShare PROVE Paired(q)'
  <2>1. Paired(t) /\ ToCome(t)
    BY <1>6, <1>9, PairByRequest DEF ToCome
  <2>2. PendingWith(t.id) # {} \/ Registering(t.id) \/ Unsent(t.share)
    BY <2>1 DEF Paired
  <2>3. ~LinesHas(t.id)
    BY <1>6, UnansweredHasNoLine
  <2>4. QED
    BY <1>3, <1>7, <2>2, <2>3 DEF Paired
<1>10. \A r \in received' : r.share # NoShare => Paired(r)'
  BY <1>3, <1>8, <1>9
<1>11. QED
  BY <1>10 DEF PairInv, Paired, ToCome

LEMMA PairStep == ReplyInv /\ [Next]_vars => PairInv'
<1> SUFFICES ASSUME ReplyInv, [Next]_vars PROVE PairInv'
  OBVIOUS
<1> USE DEF ReplyInv
<1>1. CASE Connect
  <2>1. \A r \in received : r.gen # stream'
    <3>1. \A r \in received : r.gen \in Nat /\ r.gen <= generation
      BY DEF RequestInv, SessionInv, ConnInv, TypeOK, Request, Generations
    <3>2. stream' = generation + 1 /\ generation \in Nat
      BY <1>1 DEF Connect, SessionInv, ConnInv, TypeOK, Generations
    <3>3. QED
      BY <3>1, <3>2
  <2>2. QED
    BY <1>1, <2>1, PairReceiver DEF Connect
<1>2. CASE Establish /\ ~Connect
  BY <1>2, PairReceiver DEF Establish, ConnectFails, SendLogin,
     LoginAccepted, LoginFails, SetSession, SetJob, ClearStream
<1>3. CASE Rotate
  BY <1>3, PairReceiver DEF Rotate, LoopTop, SettleFirstRead,
     RotationProceeds, RotationDeferred
<1>4. CASE ClearJob \/ DropStream \/ DrainEach \/ DrainDone
  BY <1>4, PairReceiver DEF ClearJob, DropStream, DrainEach, DrainDone
<1>5. CASE Drain
  <2>1. stream = NoStream /\ inbox = <<>> /\ lines = <<>>
    BY <1>5 DEF Drain, SessionInv, ConnInv, StreamInv, LineInv
  <2>2. UNCHANGED <<stream, inbox, lines>>
    BY <1>5 DEF Drain
  <2>3. ASSUME NEW r \in received' PROVE ~LinesHas(r.id)' /\ ~ToCome(r)'
    BY <2>1, <2>2, EmptyHasNothing DEF LinesHas, ToCome, InboxHas
  <2>4. QED
    BY <2>3 DEF PairInv, ToCome
<1>6. CASE ReadData \/ HandleLine
  BY <1>6, PairRead, PairHandled
<1>7. CASE KeepaliveSent
  <2>1. PICK new : new = [share |-> NoShare, job |-> NoJob, sid |-> session_id,
                     id |-> request_id, gen |-> stream, answer |-> "none"]
    OBVIOUS
  <2>2. new.share = NoShare /\ received' = received \cup {new}
    BY <1>7, <2>1 DEF KeepaliveSent
  <2>3. UNCHANGED <<lines, inbox, stream, wk, hand, pending_shares, counter>>
    BY <1>7 DEF KeepaliveSent
  <2>4. ASSUME NEW r \in received, r.share # NoShare PROVE Paired(r)'
    <3>1. Paired(r)
      BY <2>4, PairByRequest
    <3>2. QED
      BY <2>3, <3>1 DEF Paired, ToCome, LinesHas, InboxHas, PendingWith,
         Registering, Unsent
  <2>5. \A r \in received' : r.share # NoShare => Paired(r)'
    BY <2>2, <2>4
  <2>6. QED
    BY <2>5 DEF PairInv, Paired, ToCome
<1>8. CASE Receive /\ ~ReadData /\ ~HandleLine /\ ~KeepaliveSent
  BY <1>8, PairReceiver DEF Receive, ReadTimesOut, ReadFails,
     ReadOverflows, KeepaliveNotDue, KeepaliveFails, NotSilent, SilentTooLong
<1>9. ASSUME NEW w \in Workers, Submit(w) PROVE PairInv'
  BY <1>9, PairSubmit
<1>10. ASSUME NEW w \in Workers, NEW s \in Shares, FindShare(w, s)
       PROVE  PairInv'
  <2>1. /\ UNCHANGED <<lines, inbox, stream, received, pending_shares, counter>>
        /\ \A v \in Workers : wk[v] \in {"register", "unsent"} =>
             wk'[v] = wk[v] /\ hand'[v] = hand[v]
    BY <1>10 DEF FindShare, SessionInv, ConnInv, TypeOK
  <2>2. ASSUME NEW r \in received, r.share # NoShare PROVE Paired(r)'
    <3>1. Paired(r)
      BY <2>2, PairByRequest
    <3>2. Registering(r.id) => Registering(r.id)'
      BY <2>1 DEF Registering
    <3>3. Unsent(r.share) => Unsent(r.share)'
      BY <2>1 DEF Unsent
    <3>4. QED
      BY <2>1, <3>1, <3>2, <3>3 DEF Paired, ToCome, LinesHas, InboxHas,
         PendingWith
  <2>3. QED
    BY <2>1, <2>2 DEF PairInv, Paired, ToCome
<1>11. ASSUME NEW r \in received, PoolAnswers(r) PROVE PairInv'
  BY <1>11, PairAnswered
<1>12. CASE PoolPushesJob
  <2>1. PICK j \in {"good", "bad"} :
          inbox' = Append(inbox, [job |-> j, id |-> 0, status |-> "none"])
    BY <1>12 DEF PoolPushesJob
  <2>2. PICK m \in Line : m.id = 0 /\ inbox' = Append(inbox, m)
    BY <2>1 DEF Line
  <2>3. /\ Len(inbox) \in Nat /\ Len(inbox') = Len(inbox) + 1
        /\ inbox'[Len(inbox) + 1] = m
        /\ \A i \in 1 .. Len(inbox) : inbox'[i] = inbox[i]
    BY <2>2, AnswerAppends
  <2>4. \A i \in 1 .. Len(inbox') : i \in 1 .. Len(inbox) \/ i = Len(inbox) + 1
    BY <2>3
  <2>5. \A id : InboxHas(id)' => InboxHas(id) \/ id = 0
    BY <2>2, <2>3, <2>4 DEF InboxHas
  <2>6. UNCHANGED <<lines, received, stream, wk, hand, pending_shares, counter>>
    BY <1>12 DEF PoolPushesJob
  <2>7. ASSUME NEW r \in received, r.share # NoShare PROVE Paired(r)'
    <3>1. Paired(r)
      BY <2>7, PairByRequest
    <3>2. r.id # 0
      BY DEF RequestInv
    <3>3. ToCome(r)' => ToCome(r)
      BY <2>5, <2>6, <3>2 DEF ToCome
    <3>4. QED
      BY <2>6, <3>1, <3>3 DEF Paired, LinesHas, PendingWith, Registering, Unsent
  <2>8. QED
    BY <2>6, <2>7 DEF PairInv, Paired, ToCome
<1>13. CASE Exited \/ UNCHANGED vars
  BY <1>13, PairReceiver DEF Exited, vars
<1>14. QED
  BY <1>1, <1>2, <1>3, <1>4, <1>5, <1>6, <1>7, <1>8, <1>9, <1>10, <1>11,
     <1>12, <1>13 DEF Next, TearDown, Pool
-----------------------------------------------------------------------------
(* A verdict that no step gives stays justified. *)
LEMMA CountFrame ==
    ASSUME SessionInv, CountInv, [Next]_vars, NEW s \in Shares
    PROVE  /\ counter["accepted"][s] > 0 =>
                \E r \in received' : r.share = s /\ r.answer = "OK"
           /\ counter["rejected"][s] > 0 =>
                \E r \in received' : r.share = s /\ r.answer = "error"
           /\ counter["lost"][s] > 0 => \E r \in received' : r.share = s
BY ReceivedKept DEF CountInv

LEMMA CountStep == ReplyInv /\ [Next]_vars => CountInv'
<1> SUFFICES ASSUME ReplyInv, [Next]_vars PROVE CountInv'
  OBVIOUS
<1> USE DEF ReplyInv, SessionInv, ConnInv, TypeOK
<1>1. ASSUME \A s \in Shares : \A f \in Verdicts : counter'[f][s] = counter[f][s]
      PROVE  CountInv'
  BY <1>1, CountFrame DEF CountInv, Verdicts
<1>2. ASSUME NEW f \in Fates, NEW s \in Shares, counter' = Count(f, s),
             f = "accepted" => \E r \in received' : r.share = s /\ r.answer = "OK",
             f = "rejected" => \E r \in received' : r.share = s /\ r.answer = "error",
             f = "lost" => \E r \in received' : r.share = s
      PROVE  CountInv'
  <2>1. \A x \in Shares : \A g \in Fates :
          counter'[g][x] = counter[g][x] \/ (x = s /\ g = f)
    BY <1>2, CountEffect
  <2>2. ASSUME NEW x \in Shares
        PROVE  /\ counter'["accepted"][x] > 0 =>
                    \E r \in received' : r.share = x /\ r.answer = "OK"
               /\ counter'["rejected"][x] > 0 =>
                    \E r \in received' : r.share = x /\ r.answer = "error"
               /\ counter'["lost"][x] > 0 => \E r \in received' : r.share = x
    <3>1. \A g \in Verdicts : g \in Fates
      BY DEF Fates, Verdicts
    <3>2. \A g \in Verdicts : counter'[g][x] = counter[g][x] \/ (x = s /\ g = f)
      BY <2>1, <3>1
    <3>3. /\ counter["accepted"][x] > 0 =>
               \E r \in received' : r.share = x /\ r.answer = "OK"
          /\ counter["rejected"][x] > 0 =>
               \E r \in received' : r.share = x /\ r.answer = "error"
          /\ counter["lost"][x] > 0 => \E r \in received' : r.share = x
      BY CountFrame
    <3> HIDE DEF ReplyInv, SessionInv, ConnInv, TypeOK
    <3>4. counter'["accepted"][x] > 0 =>
            \E r \in received' : r.share = x /\ r.answer = "OK"
      BY <1>2, <3>2, <3>3 DEF Verdicts
    <3>5. counter'["rejected"][x] > 0 =>
            \E r \in received' : r.share = x /\ r.answer = "error"
      BY <1>2, <3>2, <3>3 DEF Verdicts
    <3>6. counter'["lost"][x] > 0 => \E r \in received' : r.share = x
      BY <1>2, <3>2, <3>3 DEF Verdicts
    <3>7. QED
      BY <3>4, <3>5, <3>6
  <2>3. QED
    BY <2>2 DEF CountInv
<1>3. CASE HandleLine
  <2> DEFINE m == Head(lines)
             fate == IF m.status = "OK" THEN "accepted" ELSE "rejected"
  <2>1. CASE counter' = counter
    BY <1>1, <2>1
  <2>2. CASE \E p \in PendingWith(m.id) : counter' = Count(fate, p.share)
    <3>1. PICK p \in PendingWith(m.id) : counter' = Count(fate, p.share)
      BY <2>2
    <3>2. p \in pending_shares /\ p.id = m.id /\ p.share \in Shares
      BY <3>1, SubmissionType DEF PendingWith
    <3>3. PICK r \in received : r.id = p.id /\ r.share = p.share
      BY <3>2 DEF SentInv, Requested
    <3>4. Len(lines) \in Nat \ {0} /\ m = lines[1]
      BY <1>3, HandleTakes
    <3>5. m.id # 0
      BY <3>2, <3>3 DEF RequestInv
    <3>6. AnswerLine(m)
      BY <3>4, <3>5 DEF LineInv
    <3>7. r.answer = m.status /\ r.answer # "none"
      BY <3>2, <3>3, <3>6 DEF AnswerLine, RequestInv
    <3>8. r.answer \in {"OK", "error"}
      BY <3>2, <3>3, <3>7, SessionAssumption DEF RequestInv, Request
    <3>9. received' = received
      BY <1>3 DEF HandleLine
    <3>10. fate \in Fates
      BY DEF Fates
    <3>11. QED
      BY <1>2, <3>1, <3>2, <3>3, <3>7, <3>8, <3>9, <3>10
  <2>3. QED
    BY <1>3, <2>1, <2>2 DEF HandleLine
<1>4. CASE DrainEach
  <2>1. PICK p \in draining : counter' = Count("lost", p.share)
    BY <1>4 DEF DrainEach
  <2>2. p.share \in Shares /\ "lost" \in Fates
    BY <2>1, SubmissionType DEF Fates
  <2>3. \E r \in received : r.share = p.share
    BY DEF SentInv, Requested
  <2>4. QED
    BY <1>2, <1>4, <2>1, <2>2, <2>3 DEF DrainEach
<1>5. ASSUME NEW w \in Workers, CountUnsent(w) PROVE CountInv'
  <2>1. counter' = Count("unsent", hand[w].share) /\ hand[w].share \in Shares
    BY <1>5, SubmissionType DEF CountUnsent, UnsentCounted, InFlightExact
  <2>2. QED
    BY <1>2, <2>1 DEF Fates
<1>6. CASE Establish
  BY <1>1, <1>6 DEF Establish, Connect, ConnectFails, SendLogin,
     LoginAccepted, LoginFails, SetSession, SetJob, ClearStream
<1>7. CASE Rotate
  BY <1>1, <1>7 DEF Rotate, LoopTop, SettleFirstRead, RotationProceeds,
     RotationDeferred
<1>8. CASE ClearJob \/ DropStream \/ Drain \/ DrainDone
  BY <1>1, <1>8 DEF ClearJob, DropStream, Drain, DrainDone
<1>9. CASE Receive /\ ~HandleLine
  BY <1>1, <1>9 DEF Receive, ReadData, ReadTimesOut, ReadFails,
     ReadOverflows, KeepaliveNotDue, KeepaliveSent, KeepaliveFails,
     NotSilent, SilentTooLong
<1>10. ASSUME NEW w \in Workers, Submit(w), ~CountUnsent(w) PROVE CountInv'
  BY <1>1, <1>10 DEF Submit, EnterSubmit, BuildRequest, WriteShare,
     RegisterShare, RefuseShare, WriteFails, LeaveSubmit
<1>11. ASSUME NEW w \in Workers, NEW s \in Shares, FindShare(w, s)
       PROVE  CountInv'
  BY <1>1, <1>11 DEF FindShare
<1>12. CASE Pool
  BY <1>1, <1>12 DEF Pool, PoolAnswers, PoolPushesJob
<1>13. CASE Exited \/ UNCHANGED vars
  BY <1>1, <1>13 DEF Exited, vars
<1>14. QED
  BY <1>3, <1>4, <1>5, <1>6, <1>7, <1>8, <1>9, <1>10, <1>11, <1>12, <1>13
     DEF Next, TearDown
-----------------------------------------------------------------------------
LEMMA InitReply == Init => ReplyInv
<1> SUFFICES ASSUME Init PROVE ReplyInv
  OBVIOUS
<1>1. SessionInv
  BY InitSession
<1>2. RequestInv /\ SentInv /\ PairInv
  BY DEF Init, RequestInv, SentInv, PairInv
<1>3. Len(inbox) = 0 /\ Len(lines) = 0
  BY EmptyHasNothing DEF Init
<1>4. LineInv
  BY <1>3 DEF Init, LineInv
<1>5. CountInv
  BY DEF Init, CountInv, Fates
<1>6. QED
  BY <1>1, <1>2, <1>4, <1>5 DEF ReplyInv

(* The session, the requests at the pool and the lines under way stay      *)
(* consistent in every reachable state.                                    *)
THEOREM ReplyInvariant == Spec => []ReplyInv
<1>1. ReplyInv /\ [Next]_vars /\ SessionInv' => ReplyInv'
  BY RequestStep, SentStep, LineStep, PairStep, CountStep DEF ReplyInv
<1>2. QED
  BY SessionInvariant, InitReply, <1>1, PTL DEF Spec

(* handle_pool_message never meets a reply to a submission that was        *)
(* written but is not registered yet: the write and the registration are   *)
(* one critical section of the stream lock, and the read takes it too.     *)
THEOREM RepliesNeverOrphaned == Spec => []NoOrphanReply
<1>1. ReplyInv => NoOrphanReply
  <2> SUFFICES ASSUME ReplyInv, NEW r \in received,
                      lines # <<>>, Head(lines).id = r.id, r.share # NoShare,
                      counter["unsent"][r.share] = 0,
                      \A w \in Workers : ~(hand[w].share = r.share /\ wk[w] = "unsent")
               PROVE  PendingWith(r.id) # {}
    BY DEF NoOrphanReply
  <2>1. Len(lines) \in Nat \ {0} /\ Head(lines) = lines[1]
    BY HeadTailProperties, LenProperties DEF ReplyInv, SessionInv, ConnInv, TypeOK
  <2>2. LinesHas(r.id)
    BY <2>1 DEF LinesHas
  <2>3. ~Unsent(r.share)
    BY DEF Unsent
  <2>4. QED
    BY <2>2, <2>3 DEF ReplyInv, PairInv
<1>2. QED
  BY ReplyInvariant, <1>1, PTL

(* A share is counted accepted or rejected exactly as the pool answered    *)
(* that share's own submission, and counted lost only if it was written,   *)
(* whatever order the pool answers in and whatever ids the keepalives and  *)
(* logins between the submissions took.                                    *)
THEOREM CountersMatchAnswers == Spec => []CountedAsAnswered
<1>1. ReplyInv => CountedAsAnswered
  <2> SUFFICES ASSUME ReplyInv, NEW s \in Shares
               PROVE  LET answers == {r.answer : r \in {q \in received : q.share = s}}
                      IN /\ counter["accepted"][s] > 0 => answers = {"OK"}
                         /\ counter["rejected"][s] > 0 => answers = {"error"}
                         /\ counter["lost"][s] > 0 => answers # {}
    BY DEF CountedAsAnswered
  <2>1. s # NoShare
    BY SessionAssumption
  <2>2. \A q, r \in received : q.share = s /\ r.share = s => q = r
    BY <2>1 DEF ReplyInv, RequestInv
  <2>3. QED
    BY <2>2 DEF ReplyInv, CountInv
<1>2. QED
  BY ReplyInvariant, <1>1, PTL
=============================================================================
