------------------------ MODULE GattRequests_proofs -------------------------
(***************************************************************************)
(* Proofs about GattRequests: a device that waits has exactly one answer   *)
(* under way, and what it is told to have succeeded is its own request.    *)
(* The whole way of a request implements RequestCycle: the ops are named   *)
(* apart by kind and id (OpsApart), so that a reply completes one at most, *)
(* and what completes answers a device that waits.                         *)
(***************************************************************************)
EXTENDS GattRequests, FiniteSetTheorems, TLAPS

AskedIn(ops, d) == {p \in ops : p.server = d /\ p.opcode = "REQ"}

\* One device: its link, what it asks for, the responses queued and the ops that will
\* complete one.  On a link that was shut, only the number of answers still matters.
Answering(state, asks, queue, asked) ==
  /\ \A p, q \in asked : p = q
  /\ queue # <<>> => Len(queue) = 1 /\ asked = {}
  /\ state = "down" => queue = <<>> /\ asked = {}
  /\ state = "up" => /\ asks = "no" <=> queue = <<>> /\ asked = {}
                     /\ \A p \in asked : p.kind = asks
                     /\ queue # <<>> => queue[1].call.kind = asks

AllAnswering == \A d \in Devices : Answering(link[d], Expects(d), write_queue[d], AskedIn(pending, d))

\* Only calls of the application that is registered now can still be reported
OwnedIsPresent ==
  /\ \A c \in owned : c.generation = generation
  /\ app = "down" => owned = {}

\* Whose response could not be written still counts as waiting
UnsentWaits == \A d \in unsent : in_req[d] # "no"

IInv == TypeOK /\ AllAnswering /\ OwnedIsPresent /\ UnsentWaits /\ SuccessIsItsOwn

----------------------------------------------------------------------------
(* Operations and responses                                                *)

LEMMA IdsStart == 0 \in Ids
BY BoundsAssumption DEF Ids

LEMMA IdsNext ==
  ASSUME ids \in [Kinds -> Ids], NEW kind \in Kinds, ids[kind] < MaxIds[kind]
  PROVE  ids[kind] + 1 \in Ids
BY BoundsAssumption DEF Ids, Kinds

LEMMA CallsTyped ==
  ASSUME TypeOK, NEW kind \in Kinds, NEW id \in Ids
  PROVE  Call(kind, id) \in Calls /\ NoCall \in Calls
<1>1. 0 \in 0..MaxApps BY BoundsAssumption
<1>. QED BY <1>1, IdsStart DEF TypeOK, Calls, Call, NoCall, Kinds

\* What Completed appends, if anything
LEMMA CompletedAt ==
  ASSUME NEW done, NEW result, NEW of, NEW d \in Devices
  PROVE  IF AskedIn(done, d) = {} THEN Completed(done, result, of)[d] = write_queue[d]
         ELSE \E p \in AskedIn(done, d) :
                Completed(done, result, of)[d] = Append(write_queue[d], Response(Call(p.kind, p.id), result, of))
<1>. DEFINE asked == AskedIn(done, d)
            p == CHOOSE p \in asked : TRUE
<1>1. Completed(done, result, of)[d] =
        IF asked = {} THEN write_queue[d]
        ELSE Append(write_queue[d], Response(Call(p.kind, p.id), result, of))
  BY DEF Completed, AskedIn
<1>2. asked # {} => p \in asked
  OBVIOUS
<1>. HIDE DEF asked, p
<1>3. CASE asked = {}  BY <1>1, <1>3 DEF asked
<1>4. CASE asked # {}  BY <1>1, <1>2, <1>4 DEF asked
<1>. QED BY <1>3, <1>4

LEMMA CompletedTyped ==
  ASSUME TypeOK, NEW done \in SUBSET Ops, NEW result \in {"ok", "error"}, NEW of \in Calls
  PROVE  Completed(done, result, of) \in [Devices -> Seq(Responses)]
<1>1. ASSUME NEW d \in Devices
      PROVE  Completed(done, result, of)[d] \in Seq(Responses)
  <2>1. write_queue[d] \in Seq(Responses) BY DEF TypeOK
  <2>2. ASSUME NEW p \in AskedIn(done, d)
        PROVE  Append(write_queue[d], Response(Call(p.kind, p.id), result, of)) \in Seq(Responses)
    <3>1. p.kind \in Kinds /\ p.id \in Ids BY DEF AskedIn, Ops
    <3>2. Response(Call(p.kind, p.id), result, of) \in Responses
      BY <3>1, CallsTyped DEF Responses, Response
    <3>. QED BY <2>1, <3>2
  <2>. QED BY <2>1, <2>2, CompletedAt
<1>2. Completed(done, result, of) = [d \in Devices |-> Completed(done, result, of)[d]]
  BY DEF Completed
<1>. QED BY <1>1, <1>2

\* An op that completes is answered: the answer moves from the op to the queue
LEMMA CompletedAnswers ==
  ASSUME TypeOK, NEW d \in Devices, NEW ops, NEW done \in SUBSET ops,
         NEW state, NEW asks, NEW result, NEW of,
         Answering(state, asks, write_queue[d], AskedIn(ops, d))
  PROVE  Answering(state, asks, Completed(done, result, of)[d], AskedIn(ops \ done, d))
<1>1. CASE AskedIn(done, d) = {}
  <2>1. AskedIn(ops \ done, d) = AskedIn(ops, d) BY <1>1 DEF AskedIn
  <2>2. Completed(done, result, of)[d] = write_queue[d] BY <1>1, CompletedAt
  <2>. QED BY <2>1, <2>2
<1>2. CASE AskedIn(done, d) # {}
  <2>1. PICK p \in AskedIn(done, d) :
          Completed(done, result, of)[d] = Append(write_queue[d], Response(Call(p.kind, p.id), result, of))
    BY <1>2, CompletedAt
  <2>2. p \in AskedIn(ops, d) BY DEF AskedIn
  <2>3. write_queue[d] = <<>> BY <2>2 DEF Answering
  <2>4. AskedIn(ops \ done, d) = {}
    <3>1. ASSUME NEW q \in AskedIn(ops \ done, d) PROVE FALSE
      <4>1. q \in AskedIn(ops, d) /\ q \notin done BY DEF AskedIn
      <4>2. q = p BY <2>2, <4>1 DEF Answering
      <4>. QED BY <4>1, <4>2 DEF AskedIn
    <3>. QED BY <3>1
  <2>5. Completed(done, result, of)[d] = <<Response(Call(p.kind, p.id), result, of)>>
    BY <2>1, <2>3
  <2>6. <<Response(Call(p.kind, p.id), result, of)>>[1].call.kind = p.kind
    BY DEF Response, Call
  <2>7. state # "down" /\ (state = "up" => p.kind = asks /\ asks # "no")
    BY <2>2 DEF Answering
  <2>. DEFINE queue == <<Response(Call(p.kind, p.id), result, of)>>
  <2>8. queue # <<>> /\ Len(queue) = 1 /\ queue[1].call.kind = p.kind
    BY <2>6
  <2>. HIDE DEF queue
  <2>. QED BY <2>4, <2>5, <2>7, <2>8 DEF Answering, queue
<1>. QED BY <1>1, <1>2

\* Success stays a device's own when what is appended is an error or the result of the op
LEMMA CompletedOwn ==
  ASSUME TypeOK, SuccessIsItsOwn, NEW done, NEW result, NEW of,
         result = "ok" => \A p \in done : Call(p.kind, p.id) = of
  PROVE  \A d \in Devices : \A i \in DOMAIN Completed(done, result, of)[d] :
           LET r == Completed(done, result, of)[d][i] IN r.result = "ok" => r.of = r.call
<1>1. ASSUME NEW d \in Devices, NEW i \in DOMAIN Completed(done, result, of)[d],
             Completed(done, result, of)[d][i].result = "ok"
      PROVE  Completed(done, result, of)[d][i].of = Completed(done, result, of)[d][i].call
  <2>1. write_queue[d] \in Seq(Responses) BY DEF TypeOK
  <2>2. CASE AskedIn(done, d) = {} BY <1>1, <2>2, CompletedAt DEF SuccessIsItsOwn
  <2>3. CASE AskedIn(done, d) # {}
    <3>1. PICK p \in AskedIn(done, d) :
            Completed(done, result, of)[d] = Append(write_queue[d], Response(Call(p.kind, p.id), result, of))
      BY <2>3, CompletedAt
    <3>. DEFINE new == Response(Call(p.kind, p.id), result, of)
    <3>2. new.result = result /\ new.of = of /\ new.call = Call(p.kind, p.id) BY DEF Response
    <3>3. p \in done BY DEF AskedIn
    <3>. HIDE DEF new
    <3>4. CASE i \in DOMAIN write_queue[d]
      <4>1. Completed(done, result, of)[d][i] = write_queue[d][i] BY <2>1, <3>1, <3>4
      <4>. QED BY <1>1, <3>4, <4>1 DEF SuccessIsItsOwn
    <3>5. CASE i \notin DOMAIN write_queue[d]
      <4>1. Completed(done, result, of)[d] = Append(write_queue[d], new) BY <3>1 DEF new
      <4>2. Completed(done, result, of)[d][i] = new BY <2>1, <3>5, <4>1
      <4>. QED BY <1>1, <3>2, <3>3, <4>2
    <3>. QED BY <3>4, <3>5
  <2>. QED BY <2>2, <2>3
<1>. QED BY <1>1
----------------------------------------------------------------------------
(* The steps                                                               *)

\* The parts of the invariant that the steps of one kind share
QueuesFine ==
  write_queue \in [Devices -> Seq(Responses)] /\ AllAnswering /\ UnsentWaits /\ SuccessIsItsOwn

LEMMA Beginning == Init => IInv
<1>. SUFFICES ASSUME Init PROVE IInv
  OBVIOUS
<1>. USE DEF Init
<1>1. <<>> \in Seq(Responses) /\ <<>> \in Seq(Calls) /\ <<>> \in Seq([call : Calls, result : {"ok", "error"}])
  OBVIOUS
<1>2. TypeOK BY <1>1, IdsStart, BoundsAssumption DEF TypeOK, Kinds
<1>3. AllAnswering BY DEF AllAnswering, Answering, AskedIn, Expects
<1>4. OwnedIsPresent /\ UnsentWaits BY DEF OwnedIsPresent, UnsentWaits
<1>5. SuccessIsItsOwn BY DEF SuccessIsItsOwn
<1>. QED BY <1>2, <1>3, <1>4, <1>5 DEF IInv

\* A reply, a timeout or the end of the application completes some of the pending ops
LEMMA Completing ==
  ASSUME IInv, NEW done \in SUBSET pending, NEW result \in {"ok", "error"}, NEW of \in Calls,
         result = "ok" => \A p \in done : Call(p.kind, p.id) = of,
         pending' = pending \ done, write_queue' = Completed(done, result, of),
         UNCHANGED <<link, in_req, unsent>>
  PROVE  QueuesFine' /\ \A d \in Devices : link[d] = "down" => write_queue'[d] = <<>>
<1>1. write_queue' \in [Devices -> Seq(Responses)]
  <2>1. done \in SUBSET Ops BY DEF IInv, TypeOK
  <2>. QED BY <2>1, CompletedTyped DEF IInv
<1>2. AllAnswering'
  BY CompletedAnswers DEF IInv, AllAnswering, Expects
<1>3. SuccessIsItsOwn'
  BY CompletedOwn DEF IInv, SuccessIsItsOwn
<1>4. \A d \in Devices : link[d] = "down" => write_queue'[d] = <<>>
  BY <1>2 DEF AllAnswering, Answering
<1>. QED BY <1>1, <1>2, <1>3, <1>4 DEF QueuesFine, IInv, UnsentWaits

\* A step that leaves the queues and the ops of all devices alone
LEMMA QueuesKept ==
  ASSUME IInv, UNCHANGED <<link, in_req, write_queue, unsent, pending>>
  PROVE  QueuesFine'
BY DEF IInv, QueuesFine, TypeOK, AllAnswering, UnsentWaits, SuccessIsItsOwn, Expects

LEMMA ConnectKeeps ==
  ASSUME IInv, NEW d \in Devices, Connect(d)
  PROVE  IInv'
<1>. USE DEF Connect, application
<1>1. TypeOK' BY DEF IInv, TypeOK, Calls, Responses
<1>2. AllAnswering'
  <2>1. in_req[d] = "no" /\ write_queue[d] = <<>> BY DEF IInv, TypeOK
  <2>3. \A e \in Devices : Expects(e)' = Expects(e) BY DEF Expects
  <2>4. Expects(d) = "no" BY <2>1 DEF Expects
  <2>2. ASSUME NEW e \in Devices
        PROVE  Answering(link'[e], Expects(e)', write_queue[e], AskedIn(pending, e))
    <3>1. CASE e = d BY <2>1, <2>3, <2>4, <3>1 DEF IInv, TypeOK, AllAnswering, Answering
    <3>2. CASE e # d BY <2>3, <3>2 DEF IInv, TypeOK, AllAnswering
    <3>. QED BY <3>1, <3>2
  <2>. QED BY <2>2 DEF AllAnswering
<1>3. OwnedIsPresent' /\ UnsentWaits' BY DEF IInv, OwnedIsPresent, UnsentWaits
<1>4. SuccessIsItsOwn' BY DEF IInv, SuccessIsItsOwn
<1>. QED BY <1>1, <1>2, <1>3, <1>4 DEF IInv

LEMMA LinkLostKeeps ==
  ASSUME IInv, NEW d \in Devices, LinkLost(d)
  PROVE  IInv'
<1>. USE DEF LinkLost, application
<1>. DEFINE freed(p) == IF p.server = d THEN [p EXCEPT !.server = None] ELSE p
<1>0. \A p \in pending : /\ freed(p) \in Ops
                         /\ freed(p).server # d
                         /\ p.server # d => freed(p) = p
                         /\ p.server = d => freed(p).server = None
  BY NoneAssumption DEF IInv, TypeOK, Ops
<1>1. pending' = {freed(p) : p \in pending} OBVIOUS
<1>. HIDE DEF freed
<1>2. TypeOK'
  <2>1. pending' \subseteq Ops BY <1>0, <1>1
  <2>2. write_queue' \in [Devices -> Seq(Responses)] BY DEF IInv, TypeOK
  <2>3. \A e \in Devices : link'[e] = "down" => in_req'[e] = "no" /\ write_queue'[e] = <<>>
    BY DEF IInv, TypeOK
  <2>. QED BY <2>1, <2>2, <2>3 DEF IInv, TypeOK, Calls, Responses
<1>3. AllAnswering'
  <2>1. ASSUME NEW e \in Devices, e # d PROVE AskedIn(pending', e) = AskedIn(pending, e)
    <3>1. e # None BY NoneAssumption
    <3>2. ASSUME NEW p \in AskedIn(pending, e) PROVE p \in AskedIn(pending', e)
      BY <1>0, <1>1, <2>1 DEF AskedIn
    <3>3. ASSUME NEW q \in AskedIn(pending', e) PROVE q \in AskedIn(pending, e)
      BY <1>0, <1>1, <2>1, <3>1 DEF AskedIn
    <3>. QED BY <3>2, <3>3
  <2>2. AskedIn(pending', d) = {} BY <1>0, <1>1 DEF AskedIn
  <2>3. ASSUME NEW e \in Devices
        PROVE  Answering(link'[e], Expects(e)', write_queue'[e], AskedIn(pending', e))
    <3>1. CASE e = d BY <2>2, <3>1 DEF IInv, TypeOK, Answering, Expects
    <3>2. CASE e # d
      <4>1. Expects(e)' = Expects(e) BY <3>2 DEF IInv, TypeOK, Expects
      <4>. QED BY <2>1, <3>2, <4>1 DEF IInv, TypeOK, AllAnswering
    <3>. QED BY <3>1, <3>2
  <2>. QED BY <2>3 DEF AllAnswering
<1>4. OwnedIsPresent' /\ UnsentWaits' BY DEF IInv, TypeOK, OwnedIsPresent, UnsentWaits
<1>5. SuccessIsItsOwn' BY DEF IInv, TypeOK, SuccessIsItsOwn
<1>. QED BY <1>2, <1>3, <1>4, <1>5 DEF IInv

LEMMA RequestTooEarlyKeeps ==
  ASSUME IInv, NEW d \in Devices, RequestTooEarly(d)
  PROVE  IInv'
<1>. USE DEF RequestTooEarly, application
<1>1. TypeOK' BY DEF IInv, TypeOK, Calls, Responses
<1>2. AllAnswering'
  <2>1. ASSUME NEW e \in Devices
        PROVE  Answering(link'[e], Expects(e)', write_queue[e], AskedIn(pending, e))
    <3>1. CASE e = d BY <3>1 DEF IInv, TypeOK, AllAnswering, Answering
    <3>2. CASE e # d BY <3>2 DEF IInv, TypeOK, AllAnswering, Expects
    <3>. QED BY <3>1, <3>2
  <2>. QED BY <2>1 DEF AllAnswering
<1>3. OwnedIsPresent' /\ UnsentWaits' BY DEF IInv, OwnedIsPresent, UnsentWaits
<1>4. SuccessIsItsOwn' BY DEF IInv, SuccessIsItsOwn
<1>. QED BY <1>1, <1>2, <1>3, <1>4 DEF IInv

LEMMA SendResponseKeeps ==
  ASSUME IInv, NEW d \in Devices, SendResponse(d)
  PROVE  IInv'
<1>. USE DEF SendResponse, application
<1>1. write_queue \in [Devices -> Seq(Responses)] /\ write_queue[d] # <<>> BY DEF IInv, TypeOK
<1>2. Len(write_queue[d]) = 1 /\ AskedIn(pending, d) = {} BY <1>1 DEF IInv, AllAnswering, Answering
<1>3. Tail(write_queue[d]) = <<>> BY <1>1, <1>2
<1>4. TypeOK'
  <2>1. write_queue' \in [Devices -> Seq(Responses)] BY <1>1, <1>3
  <2>2. \A e \in Devices : link'[e] = "down" => in_req'[e] = "no" /\ write_queue'[e] = <<>>
    BY <1>1, <1>3 DEF IInv, TypeOK
  <2>3. in_req' \in [Devices -> Kinds \cup {"no"}] BY DEF IInv, TypeOK
  <2>. QED BY <2>1, <2>2, <2>3 DEF IInv, TypeOK, Calls, Responses
<1>5. AllAnswering'
  <2>1. ASSUME NEW e \in Devices
        PROVE  Answering(link'[e], Expects(e)', write_queue'[e], AskedIn(pending', e))
    <3>1. CASE e = d
      <4>1. write_queue'[e] = <<>> /\ AskedIn(pending', e) = {} BY <1>1, <1>2, <1>3, <3>1
      <4>2. link[e] = "up" => Expects(e)' = "no" BY <3>1 DEF IInv, TypeOK, Expects
      <4>. QED BY <4>1, <4>2 DEF Answering
    <3>2. CASE e # d
      <4>1. Expects(e)' = Expects(e) BY <3>2 DEF IInv, TypeOK, Expects
      <4>. QED BY <1>1, <3>2, <4>1 DEF IInv, TypeOK, AllAnswering
    <3>. QED BY <3>1, <3>2
  <2>. QED BY <2>1 DEF AllAnswering
<1>6. OwnedIsPresent' /\ UnsentWaits'
  <2>1. in_req[d] # "no" \/ link[d] # "up"
    BY <1>1 DEF IInv, AllAnswering, Answering, Expects
  <2>2. UnsentWaits'
    <3>1. CASE link[d] = "up" /\ in_req' = [in_req EXCEPT ![d] = "no"] /\ UNCHANGED unsent
      <4>1. d \notin unsent BY <1>1, <3>1 DEF IInv, AllAnswering, Answering, Expects
      <4>. QED BY <3>1, <4>1 DEF IInv, TypeOK, UnsentWaits
    <3>2. CASE unsent' = (IF link[d] = "up" THEN unsent \cup {d} ELSE unsent) /\ UNCHANGED in_req
      BY <2>1, <3>2 DEF IInv, UnsentWaits
    <3>. QED BY <3>1, <3>2
  <2>. QED BY <2>2 DEF IInv, OwnedIsPresent
<1>7. SuccessIsItsOwn' BY <1>1, <1>3 DEF IInv, SuccessIsItsOwn
<1>. QED BY <1>4, <1>5, <1>6, <1>7 DEF IInv

\* A request or a command of d becomes an op; a request was not waited for by d before
LEMMA IssueKeeps ==
  ASSUME IInv, NEW d \in Devices, NEW kind \in Asks[d], NEW opcode \in {"REQ", "CMD"},
         Issue(d, kind, opcode), link[d] = "up",
         in_req' = IF opcode = "REQ" THEN [in_req EXCEPT ![d] = kind] ELSE in_req,
         opcode = "REQ" => in_req[d] = "no"
  PROVE  IInv'
<1>. DEFINE p == [kind |-> kind, id |-> ids[kind] + 1, server |-> d, opcode |-> opcode]
            ops == pending \cup {p}
<1>1. kind \in Kinds /\ kind # "no" BY AsksAssumption DEF Kinds
<1>2. p \in Ops /\ ids' \in [Kinds -> Ids] /\ ops \in SUBSET Ops
  <2>1. ids[kind] + 1 \in Ids BY <1>1, IdsNext DEF Issue, IInv, TypeOK
  <2>. QED BY <1>1, <2>1 DEF Issue, IInv, TypeOK, Ops
<1>3. in_req' \in [Devices -> Kinds \cup {"no"}] BY <1>1 DEF IInv, TypeOK
<1>4. ASSUME NEW e \in Devices
      PROVE  Answering(link[e], Expects(e)', write_queue[e], AskedIn(ops, e))
  <2>1. Answering(link[e], Expects(e), write_queue[e], AskedIn(pending, e)) BY DEF IInv, AllAnswering
  <2>2. CASE e = d /\ opcode = "REQ"
    <3>0. d \notin unsent /\ Expects(d) = "no" BY <2>2 DEF IInv, UnsentWaits, Expects
    <3>1. write_queue[d] = <<>> /\ AskedIn(pending, d) = {} BY <2>1, <2>2, <3>0 DEF Answering
    <3>2. AskedIn(ops, d) = {p} BY <2>2, <3>1 DEF AskedIn
    <3>3. Expects(d)' = kind BY <2>2, <3>0 DEF IInv, TypeOK, Issue, Expects
    <3>4. p.kind = kind OBVIOUS
    <3>. HIDE DEF p, ops
    <3>. QED BY <1>1, <2>2, <3>1, <3>2, <3>3, <3>4 DEF Answering
  <2>3. CASE ~(e = d /\ opcode = "REQ")
    <3>1. AskedIn(ops, e) = AskedIn(pending, e) BY <2>3 DEF AskedIn
    <3>2. Expects(e)' = Expects(e) BY <2>3 DEF IInv, TypeOK, Issue, Expects
    <3>. QED BY <2>1, <3>1, <3>2
  <2>. QED BY <2>2, <2>3
<1>5. Call(p.kind, p.id) \in Calls /\ NoCall \in Calls
  BY <1>2, CallsTyped DEF IInv, Ops
<1>6. p \in Ops /\ (CallIsSent(p) \/ CallFails(p)) /\ app # "down"
      /\ UNCHANGED <<link, unsent, replies, app, generation>>
  BY <1>2 DEF Issue
<1>9. UnsentWaits' BY <1>1, <1>6 DEF IInv, TypeOK, UnsentWaits
<1>. HIDE DEF p, ops
<1>7. CASE CallIsSent(p)
  <2>. USE <1>7 DEF CallIsSent
  <2>1. pending' = ops /\ UNCHANGED write_queue BY DEF ops
  <2>2. owned' \subseteq Calls /\ calls' \in Seq(Calls) BY <1>5 DEF IInv, TypeOK
  <2>3. \A e \in Devices : link'[e] = "down" => in_req'[e] = "no" /\ write_queue'[e] = <<>>
    BY <1>6 DEF IInv, TypeOK
  <2>4. TypeOK' BY <1>2, <1>3, <1>6, <2>1, <2>2, <2>3 DEF IInv, TypeOK, Calls, Responses
  <2>5. AllAnswering' BY <1>4, <1>6, <2>1 DEF AllAnswering
  <2>6. OwnedIsPresent' BY <1>6 DEF IInv, OwnedIsPresent, Call
  <2>7. SuccessIsItsOwn' BY DEF IInv, SuccessIsItsOwn
  <2>. QED BY <1>9, <2>4, <2>5, <2>6, <2>7 DEF IInv
<1>8. CASE CallFails(p)
  <2>. DEFINE ended == {q \in ops : q.kind = "read" /\ q.id = p.id}
  <2>1. /\ pending' = ops \ ended /\ write_queue' = Completed(ended, "error", NoCall)
        /\ UNCHANGED <<owned, calls>>
    BY <1>8 DEF CallFails, ops
  <2>2. ended \in SUBSET ops /\ ended \in SUBSET Ops BY <1>2
  <2>. HIDE DEF ended
  <2>3. write_queue' \in [Devices -> Seq(Responses)]
    BY <1>5, <2>1, <2>2, CompletedTyped DEF IInv
  <2>4. AllAnswering'
    <3>1. ASSUME NEW e \in Devices
          PROVE  Answering(link[e], Expects(e)', Completed(ended, "error", NoCall)[e], AskedIn(ops \ ended, e))
      BY <1>4, <2>2, CompletedAnswers DEF IInv
    <3>. QED BY <1>6, <2>1, <3>1 DEF AllAnswering
  <2>5. \A e \in Devices : link'[e] = "down" => in_req'[e] = "no" /\ write_queue'[e] = <<>>
    BY <1>6, <2>4 DEF IInv, TypeOK, AllAnswering, Answering
  <2>6. TypeOK' BY <1>2, <1>3, <1>6, <2>1, <2>3, <2>5 DEF IInv, TypeOK, Calls, Responses
  <2>7. OwnedIsPresent' BY <1>6, <2>1 DEF IInv, OwnedIsPresent
  <2>8. SuccessIsItsOwn' BY <2>1, CompletedOwn DEF IInv, SuccessIsItsOwn
  <2>. QED BY <1>9, <2>4, <2>6, <2>7, <2>8 DEF IInv
<1>. QED BY <1>6, <1>7, <1>8

LEMMA RequestKeeps ==
  ASSUME IInv, NEW d \in Devices, NEW kind \in Asks[d], Request(d, kind)
  PROVE  IInv'
BY IssueKeeps DEF Request

LEMMA WriteCommandKeeps ==
  ASSUME IInv, NEW d \in Devices, WriteCommand(d)
  PROVE  IInv'
BY IssueKeeps DEF WriteCommand

LEMMA RequestRefusedKeeps ==
  ASSUME IInv, NEW d \in Devices, NEW kind \in Asks[d], RequestRefused(d, kind)
  PROVE  IInv'
<1>. DEFINE response == Response(Call(kind, 0), "error", NoCall)
<1>1. kind \in Kinds /\ kind # "no" BY AsksAssumption DEF Kinds
<1>2. Call(kind, 0) \in Calls /\ NoCall \in Calls BY <1>1, IdsStart, CallsTyped DEF IInv
<1>3. /\ response \in Responses
      /\ response.result = "error" /\ response.call.kind = kind
  BY <1>2 DEF Responses, Response, Call
<1>0. d \notin unsent /\ Expects(d) = "no"
  BY DEF RequestRefused, IInv, UnsentWaits, Expects
<1>4. write_queue[d] = <<>> /\ AskedIn(pending, d) = {}
  BY <1>0 DEF RequestRefused, IInv, AllAnswering, Answering
<1>5. /\ link[d] = "up" /\ in_req' = [in_req EXCEPT ![d] = kind]
      /\ write_queue' = [write_queue EXCEPT ![d] = Append(@, response)]
      /\ UNCHANGED <<link, unsent, pending, ids, owned, application>>
  BY DEF RequestRefused, Respond
<1>. HIDE DEF response
<1>6. write_queue'[d] = <<response>> BY <1>4, <1>5 DEF IInv, TypeOK
<1>7. TypeOK'
  <2>1. write_queue' \in [Devices -> Seq(Responses)]
    <3>1. <<response>> \in Seq(Responses) BY <1>3
    <3>. QED BY <1>4, <1>5, <3>1 DEF IInv, TypeOK
  <2>2. in_req' \in [Devices -> Kinds \cup {"no"}] BY <1>1, <1>5 DEF IInv, TypeOK
  <2>3. \A e \in Devices : link'[e] = "down" => in_req'[e] = "no" /\ write_queue'[e] = <<>>
    BY <1>5 DEF IInv, TypeOK
  <2>. QED BY <1>5, <2>1, <2>2, <2>3 DEF IInv, TypeOK, Calls, Responses, application
<1>8. AllAnswering'
  <2>1. ASSUME NEW e \in Devices
        PROVE  Answering(link'[e], Expects(e)', write_queue'[e], AskedIn(pending', e))
    <3>1. CASE e = d
      <4>1. write_queue'[d] # <<>> /\ Len(write_queue'[d]) = 1 /\ write_queue'[d][1] = response BY <1>6
      <4>2. Expects(d)' = kind BY <1>0, <1>5 DEF IInv, TypeOK, Expects
      <4>. QED BY <1>1, <1>3, <1>4, <1>5, <3>1, <4>1, <4>2 DEF Answering
    <3>2. CASE e # d
      <4>1. Expects(e)' = Expects(e) BY <1>5, <3>2 DEF IInv, TypeOK, Expects
      <4>. QED BY <1>5, <3>2, <4>1 DEF IInv, TypeOK, AllAnswering
    <3>. QED BY <3>1, <3>2
  <2>. QED BY <2>1 DEF AllAnswering
<1>9. OwnedIsPresent' /\ UnsentWaits'
  BY <1>1, <1>5 DEF IInv, TypeOK, OwnedIsPresent, UnsentWaits, application
<1>10. SuccessIsItsOwn'
  <2>1. ASSUME NEW e \in Devices, NEW i \in DOMAIN write_queue'[e], write_queue'[e][i].result = "ok"
        PROVE  write_queue'[e][i].of = write_queue'[e][i].call
    <3>1. CASE e = d
      <4>1. i = 1 BY <1>6, <2>1, <3>1
      <4>. QED BY <1>3, <1>6, <2>1, <3>1, <4>1
    <3>2. CASE e # d
      <4>1. write_queue'[e] = write_queue[e] BY <1>5, <3>2 DEF IInv, TypeOK
      <4>. QED BY <2>1, <4>1 DEF IInv, SuccessIsItsOwn
    <3>. QED BY <3>1, <3>2
  <2>. QED BY <2>1 DEF SuccessIsItsOwn
<1>. QED BY <1>7, <1>8, <1>9, <1>10 DEF IInv

LEMMA AppHandlesKeeps ==
  ASSUME IInv, AppHandles
  PROVE  IInv'
<1>. USE DEF AppHandles, devices
<1>1. QueuesFine' BY QueuesKept
<1>2. Head(calls) \in Calls /\ Tail(calls) \in Seq(Calls) BY DEF IInv, TypeOK
<1>3. replies' \in Seq([call : Calls, result : {"ok", "error"}]) BY <1>2 DEF IInv, TypeOK
<1>4. TypeOK' BY <1>2, <1>3 DEF IInv, TypeOK, Calls, Responses
<1>5. OwnedIsPresent' BY DEF IInv, OwnedIsPresent
<1>. QED BY <1>1, <1>4, <1>5 DEF IInv, QueuesFine

LEMMA DeliverReplyKeeps ==
  ASSUME IInv, DeliverReply
  PROVE  IInv'
<1>. DEFINE reply == Head(replies)
            done == IF reply.call \in owned THEN Named(reply.call) ELSE {}
<1>. DEFINE Replies == [call : Calls, result : {"ok", "error"}]
<1>1. reply \in Replies /\ Tail(replies) \in Seq(Replies)
  <2>1. replies \in Seq(Replies) /\ replies # <<>> BY DEF DeliverReply, IInv, TypeOK
  <2>. HIDE DEF Replies
  <2>. QED BY <2>1
<1>2. done \in SUBSET pending BY DEF Named
<1>3. /\ owned' = owned \ {reply.call} /\ pending' = pending \ done
      /\ write_queue' = Completed(done, reply.result, reply.call)
      /\ replies' = Tail(replies) /\ UNCHANGED <<link, in_req, unsent, ids, calls, app, generation>>
  BY DEF DeliverReply
<1>4. reply.call \in Calls /\ reply.result \in {"ok", "error"} BY <1>1
<1>5. ASSUME NEW p \in done PROVE Call(p.kind, p.id) = reply.call
  <2>1. reply.call \in owned /\ p.kind = reply.call.kind /\ p.id = reply.call.id BY DEF Named
  <2>2. reply.call.generation = generation /\ reply.call \in Calls
    BY <1>4, <2>1 DEF IInv, OwnedIsPresent
  <2>. QED BY <2>1, <2>2 DEF Call, Calls
<1>. HIDE DEF done, reply
<1>6. QueuesFine' /\ \A d \in Devices : link[d] = "down" => write_queue'[d] = <<>>
  BY <1>2, <1>3, <1>4, <1>5, Completing
<1>7. TypeOK' BY <1>1, <1>3, <1>6 DEF QueuesFine, IInv, TypeOK, Calls, Responses, Replies
<1>8. OwnedIsPresent' BY <1>3 DEF IInv, OwnedIsPresent
<1>. QED BY <1>6, <1>7, <1>8 DEF IInv, QueuesFine

LEMMA TimeoutKeeps ==
  ASSUME IInv, NEW p \in pending, Timeout(p)
  PROVE  IInv'
<1>. USE DEF Timeout, application
<1>1. NoCall \in Calls
  <2>1. p.kind \in Kinds /\ p.id \in Ids BY DEF IInv, TypeOK, Ops
  <2>. QED BY <2>1, CallsTyped DEF IInv
<1>2. QueuesFine' /\ \A d \in Devices : link[d] = "down" => write_queue'[d] = <<>>
  BY <1>1, Completing
<1>3. TypeOK' BY <1>2 DEF QueuesFine, IInv, TypeOK, Calls, Responses
<1>4. OwnedIsPresent' BY DEF IInv, OwnedIsPresent
<1>. QED BY <1>2, <1>3, <1>4 DEF IInv, QueuesFine

LEMMA AppRegistersKeeps ==
  ASSUME IInv, AppRegisters
  PROVE  IInv'
<1>. USE DEF AppRegisters, devices
<1>1. QueuesFine' BY QueuesKept
<1>2. generation' \in 0..MaxApps BY BoundsAssumption DEF IInv, TypeOK
<1>3. TypeOK' BY <1>2 DEF IInv, TypeOK, Calls, Responses
<1>4. OwnedIsPresent' BY DEF IInv, OwnedIsPresent
<1>. QED BY <1>1, <1>3, <1>4 DEF IInv, QueuesFine

LEMMA AppExitsKeeps ==
  ASSUME IInv, AppExits
  PROVE  IInv'
<1>. USE DEF AppExits, devices
<1>. DEFINE Replies == [call : Calls, result : {"ok", "error"}]
            refused == [i \in DOMAIN calls |-> [call |-> calls[i], result |-> "error"]]
<1>1. QueuesFine' BY QueuesKept
<1>2. refused \in Seq(Replies)
  <2>1. calls \in Seq(Calls) BY DEF IInv, TypeOK
  <2>2. DOMAIN calls = 1..Len(calls) /\ Len(calls) \in Nat BY <2>1
  <2>3. \A i \in 1..Len(calls) : [call |-> calls[i], result |-> "error"] \in Replies
    BY <2>1, <2>2
  <2>. HIDE DEF Replies
  <2>4. refused \in [1..Len(calls) -> Replies] BY <2>2, <2>3
  <2>. QED BY <2>2, <2>4
<1>3. replies' = replies \o refused /\ calls' = <<>> OBVIOUS
<1>4. replies \in Seq(Replies) BY DEF IInv, TypeOK
<1>. HIDE DEF refused, Replies
<1>. HIDE DEF AppExits
<1>5. replies' \in Seq(Replies) /\ calls' \in Seq(Calls) BY <1>2, <1>3, <1>4
<1>. USE DEF AppExits
<1>6. TypeOK' BY <1>5 DEF IInv, TypeOK, Calls, Responses, Replies
<1>7. OwnedIsPresent' BY DEF IInv, OwnedIsPresent
<1>. QED BY <1>1, <1>6, <1>7 DEF IInv, QueuesFine

LEMMA ClientDisconnectKeeps ==
  ASSUME IInv, ClientDisconnect
  PROVE  IInv'
<1>. USE DEF ClientDisconnect
<1>1. NoCall \in Calls
  BY IdsStart, BoundsAssumption DEF NoCall, Calls, Kinds
<1>2. pending' = pending \ pending OBVIOUS
<1>3. QueuesFine' /\ \A d \in Devices : link[d] = "down" => write_queue'[d] = <<>>
  BY <1>1, <1>2, Completing
<1>4. ids' \in [Kinds -> Ids] /\ <<>> \in Seq(Calls) BY IdsStart
<1>5. TypeOK' BY <1>3, <1>4 DEF QueuesFine, IInv, TypeOK, Calls, Responses
<1>6. OwnedIsPresent' BY DEF IInv, OwnedIsPresent
<1>. QED BY <1>3, <1>5, <1>6 DEF IInv, QueuesFine

----------------------------------------------------------------------------
(* The theorems                                                            *)

LEMMA Stuttering ==
  ASSUME IInv, UNCHANGED vars
  PROVE  IInv'
BY DEF IInv, TypeOK, Calls, Responses, AllAnswering, Expects, OwnedIsPresent, UnsentWaits,
   SuccessIsItsOwn, vars, devices, application

\* IInv is inductive: whatever devices, timers, the bus and the application do next, at most
\* one answer stays under way to each device and only present calls can be reported.
THEOREM Invariance == Spec => []IInv
<1>1. IInv /\ [Next]_vars => IInv'
  <2>. SUFFICES ASSUME IInv, [Next]_vars PROVE IInv'
    OBVIOUS
  <2>1. ASSUME NEW d \in Devices, Connect(d) PROVE IInv' BY <2>1, ConnectKeeps
  <2>2. ASSUME NEW d \in Devices, LinkLost(d) PROVE IInv' BY <2>2, LinkLostKeeps
  <2>3. ASSUME NEW d \in Devices, RequestTooEarly(d) PROVE IInv' BY <2>3, RequestTooEarlyKeeps
  <2>4. ASSUME NEW d \in Devices, SendResponse(d) PROVE IInv' BY <2>4, SendResponseKeeps
  <2>5. ASSUME NEW d \in Devices, WriteCommand(d) PROVE IInv' BY <2>5, WriteCommandKeeps
  <2>6. ASSUME NEW d \in Devices, NEW kind \in Asks[d], Request(d, kind) PROVE IInv'
    BY <2>6, RequestKeeps
  <2>7. ASSUME NEW d \in Devices, NEW kind \in Asks[d], RequestRefused(d, kind) PROVE IInv'
    BY <2>7, RequestRefusedKeeps
  <2>8. CASE AppHandles BY <2>8, AppHandlesKeeps
  <2>9. CASE DeliverReply BY <2>9, DeliverReplyKeeps
  <2>10. ASSUME NEW p \in pending, Timeout(p) PROVE IInv' BY <2>10, TimeoutKeeps
  <2>11. CASE AppRegisters BY <2>11, AppRegistersKeeps
  <2>12. CASE AppExits BY <2>12, AppExitsKeeps
  <2>13. CASE ClientDisconnect BY <2>13, ClientDisconnectKeeps
  <2>14. CASE UNCHANGED vars BY <2>14, Stuttering
  <2>. QED
    BY <2>1, <2>2, <2>3, <2>4, <2>5, <2>6, <2>7, <2>8, <2>9, <2>10, <2>11, <2>12, <2>13, <2>14 DEF Next
<1>. QED BY Beginning, <1>1, PTL DEF Spec

\* Every reachable state is well typed, and a device without a link waits for nothing and
\* has nothing queued.
THEOREM Typing == Spec => []TypeOK
<1>1. IInv => TypeOK BY DEF IInv
<1>. QED BY <1>1, Invariance, PTL

\* On a link that is up, a device that waits has exactly one answer under way, to what it
\* asked, and one whose response could not be written has none, for any number of devices,
\* requests, calls in flight and restarts.
THEOREM OneAnswer == Spec => []OneAnswerEach
<1>1. ASSUME IInv, NEW d \in Devices, link[d] = "up"
      PROVE  LET answers == {write_queue[d][i].call.kind : i \in DOMAIN write_queue[d]} \cup {p.kind : p \in Asked(d)}
             IN  /\ Len(write_queue[d]) + Cardinality(Asked(d)) <= 1
                 /\ answers = IF Expects(d) = "no" THEN {} ELSE {Expects(d)}
                 /\ d \in unsent => in_req[d] # "no"
  <2>1. Asked(d) = AskedIn(pending, d) BY DEF Asked, AskedIn
  <2>2. Answering("up", Expects(d), write_queue[d], Asked(d)) /\ (d \in unsent => in_req[d] # "no")
    BY <1>1, <2>1 DEF IInv, AllAnswering, UnsentWaits
  <2>3. write_queue[d] \in Seq(Responses) BY <1>1 DEF IInv, TypeOK
  <2>4. Cardinality({}) = 0 /\ \A p : Cardinality({p}) = 1 BY FS_EmptySet, FS_Singleton
  <2>5. CASE Expects(d) = "no"
    <3>1. write_queue[d] = <<>> /\ Asked(d) = {} BY <2>2, <2>5 DEF Answering
    <3>2. DOMAIN write_queue[d] = {} /\ Len(write_queue[d]) = 0 BY <3>1
    <3>. QED BY <2>2, <2>4, <2>5, <3>1, <3>2
  <2>6. CASE Expects(d) # "no" /\ write_queue[d] # <<>>
    <3>1. Len(write_queue[d]) = 1 /\ Asked(d) = {} /\ write_queue[d][1].call.kind = Expects(d)
      BY <2>2, <2>6 DEF Answering
    <3>2. DOMAIN write_queue[d] = {1} BY <2>3, <3>1
    <3>. QED BY <2>2, <2>4, <2>6, <3>1, <3>2
  <2>7. CASE Expects(d) # "no" /\ write_queue[d] = <<>>
    <3>1. PICK p \in Asked(d) : TRUE BY <2>2, <2>7 DEF Answering
    <3>2. Asked(d) = {p} /\ p.kind = Expects(d) BY <2>2, <3>1 DEF Answering
    <3>3. DOMAIN write_queue[d] = {} /\ Len(write_queue[d]) = 0 BY <2>7
    <3>4. {q.kind : q \in Asked(d)} = {Expects(d)} /\ {write_queue[d][i].call.kind : i \in DOMAIN write_queue[d]} = {}
      BY <3>2, <3>3
    <3>5. Len(write_queue[d]) + Cardinality(Asked(d)) <= 1
      <4>1. Cardinality(Asked(d)) = 1 BY <2>4, <3>2
      <4>. QED BY <3>3, <4>1
    <3>. QED BY <2>2, <2>7, <3>4, <3>5
  <2>. QED BY <2>5, <2>6, <2>7
<1>2. IInv => OneAnswerEach BY <1>1 DEF OneAnswerEach
<1>. QED BY <1>2, Invariance, PTL

\* A device is told of success only when the application carried out its own request, also
\* after timeouts, lost links and new applications that count from one again.
THEOREM OwnSuccess == Spec => []SuccessIsItsOwn
<1>1. IInv => SuccessIsItsOwn BY DEF IInv
<1>. QED BY <1>1, Invariance, PTL

----------------------------------------------------------------------------
(* Each op is named by its kind and its id                                 *)

OpsApart ==
  /\ \A p \in pending : p.id <= ids[p.kind]
  /\ \A p, q \in pending : p.kind = q.kind /\ p.id = q.id => p = q

\* A step that starts no op leaves those there are apart.
LEMMA FewerOps ==
  ASSUME OpsApart, pending' \subseteq pending, ids' = ids
  PROVE  OpsApart'
BY DEF OpsApart

LEMMA LinkLostApart ==
  ASSUME IInv, OpsApart, NEW d \in Devices, LinkLost(d)
  PROVE  OpsApart'
<1>. DEFINE freed(p) == IF p.server = d THEN [p EXCEPT !.server = None] ELSE p
<1>1. \A p \in pending : freed(p).kind = p.kind /\ freed(p).id = p.id
  BY DEF IInv, TypeOK, Ops
<1>2. pending' = {freed(p) : p \in pending} /\ ids' = ids
  BY DEF LinkLost
<1>. HIDE DEF freed
<1>. QED
  BY <1>1, <1>2 DEF OpsApart

\* The new op has an id above all others of its kind.
LEMMA IssueApart ==
  ASSUME IInv, OpsApart, NEW d \in Devices, NEW kind \in Asks[d], NEW opcode, Issue(d, kind, opcode)
  PROVE  OpsApart'
<1>. DEFINE p == [kind |-> kind, id |-> ids[kind] + 1, server |-> d, opcode |-> opcode]
<1>1. p.kind = kind /\ p.id = ids[kind] + 1 /\ kind \in Kinds
  BY AsksAssumption DEF Kinds
<1>2. ids' = [ids EXCEPT ![kind] = @ + 1] /\ pending' \subseteq pending \cup {p}
  BY DEF Issue, CallIsSent, CallFails
<1>. HIDE DEF p
<1>3. ids \in [Kinds -> Nat] /\ \A q \in pending : q.kind \in Kinds /\ q.id \in Nat
  BY BoundsAssumption DEF IInv, TypeOK, Ops, Ids
<1>4. \A q \in pending : q.id <= ids'[q.kind] /\ (q.kind = kind => q.id # p.id)
  BY <1>1, <1>2, <1>3 DEF OpsApart
<1>5. p.id <= ids'[p.kind]
  BY <1>1, <1>2, <1>3
<1>. QED
  BY <1>1, <1>2, <1>4, <1>5 DEF OpsApart

LEMMA ApartInvariance == Spec => []OpsApart
<1>1. Init => OpsApart
  BY DEF Init, OpsApart
<1>2. IInv /\ OpsApart /\ [Next]_vars => OpsApart'
  <2>. SUFFICES ASSUME IInv, OpsApart, [Next]_vars PROVE OpsApart'
    OBVIOUS
  <2>1. ASSUME NEW d \in Devices, LinkLost(d) PROVE OpsApart'
    BY <2>1, LinkLostApart
  <2>2. ASSUME NEW d \in Devices,
               Connect(d) \/ RequestTooEarly(d) \/ SendResponse(d)
        PROVE  OpsApart'
    BY <2>2, FewerOps DEF Connect, RequestTooEarly, SendResponse
  <2>3. ASSUME NEW d \in Devices, WriteCommand(d) PROVE OpsApart'
    BY <2>3, IssueApart DEF WriteCommand
  <2>4. ASSUME NEW d \in Devices, NEW kind \in Asks[d], Request(d, kind) PROVE OpsApart'
    BY <2>4, IssueApart DEF Request
  <2>5. ASSUME NEW d \in Devices, NEW kind \in Asks[d], RequestRefused(d, kind) PROVE OpsApart'
    BY <2>5, FewerOps DEF RequestRefused
  <2>6. CASE AppHandles \/ DeliverReply \/ AppRegisters \/ AppExits
    BY <2>6, FewerOps DEF AppHandles, DeliverReply, AppRegisters, AppExits
  <2>7. ASSUME NEW p \in pending, Timeout(p) PROVE OpsApart'
    BY <2>7, FewerOps DEF Timeout
  <2>8. CASE ClientDisconnect
    BY <2>8 DEF ClientDisconnect, OpsApart
  <2>9. CASE UNCHANGED vars
    BY <2>9, FewerOps DEF vars
  <2>. QED
    BY <2>1, <2>2, <2>3, <2>4, <2>5, <2>6, <2>7, <2>8, <2>9 DEF Next
<1>. QED
  BY <1>1, <1>2, Invariance, PTL DEF Spec

----------------------------------------------------------------------------
(* The cycle of requests                                                   *)

Told(done) == {d \in Devices : link[d] = "up" /\ AskedIn(done, d) # {}}

\* Ops that complete answer the devices on whose behalf they were pending, and no other.
LEMMA AnswerPlace ==
  ASSUME IInv, NEW d \in Devices, NEW done, AskedIn(done, d) \subseteq AskedIn(pending, d),
         NEW result, NEW of, write_queue'[d] = Completed(done, result, of)[d],
         link'[d] = link[d], in_req'[d] = in_req[d], unsent' = unsent
  PROVE  IF d \in Told(done)
         THEN /\ PlaceOf(d) = Place("waiting", in_req[d], "nothing")
              /\ PlaceOf(d)' = Place("answered", in_req[d], result)
         ELSE PlaceOf(d)' = PlaceOf(d)
<1>0. Answering(link[d], Expects(d), write_queue[d], AskedIn(pending, d))
  BY DEF IInv, AllAnswering
<1>1. CASE AskedIn(done, d) = {}
  <2>1. write_queue'[d] = write_queue[d]
    BY <1>1, CompletedAt
  <2>. QED
    BY <1>1, <2>1 DEF Told, PlaceOf
<1>2. CASE AskedIn(done, d) # {}
  <2>1. PICK p \in AskedIn(done, d) :
          write_queue'[d] = Append(write_queue[d], Response(Call(p.kind, p.id), result, of))
    BY <1>2, CompletedAt
  <2>. DEFINE new == Response(Call(p.kind, p.id), result, of)
  <2>2. new.call.kind = p.kind /\ new.result = result
    BY DEF Response, Call
  <2>3. write_queue[d] = <<>> /\ link[d] # "down"
        /\ (link[d] = "up" => p.kind = in_req[d] /\ in_req[d] # "no" /\ d \notin unsent)
    BY <1>0, <2>1 DEF Answering, Expects
  <2>4. write_queue'[d] = <<new>>
    BY <2>1, <2>3
  <2>. HIDE DEF new
  <2>5. write_queue'[d] # <<>> /\ Head(write_queue'[d]) = new
    BY <2>4
  <2>6. CASE link[d] = "up"
    <3>1. PlaceOf(d) = Place("waiting", in_req[d], "nothing")
      BY <2>3, <2>6 DEF PlaceOf
    <3>2. PlaceOf(d)' = Place("answered", in_req[d], result)
      BY <2>2, <2>3, <2>5, <2>6 DEF PlaceOf
    <3>3. d \in Told(done)
      BY <1>2, <2>6 DEF Told
    <3>. QED
      BY <3>1, <3>2, <3>3
  <2>7. CASE link[d] # "up"
    <3>1. PlaceOf(d)' = PlaceOf(d)
      <4>1. link[d] = "shut" \/ link[d] = "down"
        BY <2>7 DEF IInv, TypeOK
      <4>. QED
        BY <4>1 DEF PlaceOf
    <3>2. d \notin Told(done)
      BY <2>7 DEF Told
    <3>. QED
      BY <3>1, <3>2
  <2>. QED
    BY <2>6, <2>7
<1>. QED
  BY <1>1, <1>2

\* The place of a device whose state is left alone
LEMMA PlaceKept ==
  ASSUME NEW d \in Devices,
         link'[d] = link[d], in_req'[d] = in_req[d], write_queue'[d] = write_queue[d],
         d \in unsent' <=> d \in unsent
  PROVE  PlaceOf(d)' = PlaceOf(d)
BY DEF PlaceOf

LEMMA DevicesKept ==
  ASSUME UNCHANGED devices
  PROVE  UNCHANGED [d \in Devices |-> PlaceOf(d)]
BY DEF devices, PlaceOf

\* The step of one device
LEMMA OnePlace ==
  ASSUME NEW d \in Devices, NEW place, PlaceOf(d)' = place,
         \A e \in Devices : e # d => PlaceOf(e)' = PlaceOf(e)
  PROVE  [e \in Devices |-> PlaceOf(e)]' = [[e \in Devices |-> PlaceOf(e)] EXCEPT ![d] = place]
OBVIOUS

CycleStep == [Cycle!Next]_([d \in Devices |-> PlaceOf(d)])

\* Ops that complete with an error
LEMMA Failing ==
  ASSUME IInv, NEW done, \A d \in Devices : AskedIn(done, d) \subseteq AskedIn(pending, d),
         NEW of, write_queue' = Completed(done, "error", of), UNCHANGED <<link, in_req, unsent>>
  PROVE  CycleStep
<1>1. ASSUME NEW d \in Devices
      PROVE  IF d \in Told(done)
             THEN /\ PlaceOf(d) = Place("waiting", in_req[d], "nothing")
                  /\ PlaceOf(d)' = Place("answered", in_req[d], "error")
             ELSE PlaceOf(d)' = PlaceOf(d)
  BY AnswerPlace
<1>2. Told(done) \in SUBSET Cycle!Waiters
  BY <1>1 DEF Told, Place, Cycle!Waiters
<1>3. Cycle!Fail(Told(done))
  BY <1>1 DEF Place, Cycle!Fail, Cycle!Answered, Cycle!Place
<1>. QED
  BY <1>2, <1>3 DEF CycleStep, Cycle!Next

\* A request that is taken, with those that fail with it
LEMMA Asking ==
  ASSUME NEW d \in Devices, NEW kind \in Kinds, NEW failed \in SUBSET (Cycle!Waiters \cup {d}),
         PlaceOf(d) = Place("free", "nothing", "nothing"),
         PlaceOf(d)' = IF d \in failed THEN Place("answered", kind, "error")
                       ELSE Place("waiting", kind, "nothing"),
         \A e \in Devices : e # d =>
           PlaceOf(e)' = IF e \in failed THEN Place("answered", PlaceOf(e).asks, "error")
                         ELSE PlaceOf(e)
  PROVE  CycleStep
<1>1. Cycle!Ask(d, kind, failed)
  BY DEF Place, Cycle!Ask, Cycle!Free, Cycle!Waiting, Cycle!Answered, Cycle!Place
<1>. QED
  BY <1>1 DEF CycleStep, Cycle!Next

LEMMA ConnectCycles ==
  ASSUME IInv, NEW d \in Devices, Connect(d)
  PROVE  CycleStep
<1>1. PlaceOf(d) = Place("away", "nothing", "nothing") /\ PlaceOf(d)' = Place("free", "nothing", "nothing")
  BY DEF IInv, TypeOK, Connect, PlaceOf
<1>2. \A e \in Devices : e # d => PlaceOf(e)' = PlaceOf(e)
  BY PlaceKept DEF IInv, TypeOK, Connect
<1>3. Cycle!Connect(d)
  BY <1>1, <1>2, OnePlace DEF Place, Cycle!Connect, Cycle!Away, Cycle!Free, Cycle!Place
<1>. QED
  BY <1>3 DEF CycleStep, Cycle!Next

LEMMA LinkLostCycles ==
  ASSUME IInv, NEW d \in Devices, LinkLost(d)
  PROVE  CycleStep
<1>1. PlaceOf(d).at # "away" /\ PlaceOf(d)' = Place("away", "nothing", "nothing")
  BY DEF IInv, TypeOK, LinkLost, PlaceOf, Place
<1>2. \A e \in Devices : e # d => PlaceOf(e)' = PlaceOf(e)
  <2>. SUFFICES ASSUME NEW e \in Devices, e # d PROVE PlaceOf(e)' = PlaceOf(e)
    OBVIOUS
  <2>1. /\ link'[e] = link[e] /\ in_req'[e] = in_req[e] /\ write_queue'[e] = write_queue[e]
        /\ e \in unsent' <=> e \in unsent
    BY DEF IInv, TypeOK, LinkLost
  <2>. QED
    BY <2>1, PlaceKept
<1>3. Cycle!Lose(d)
  BY <1>1, <1>2, OnePlace DEF Place, Cycle!Lose, Cycle!Away, Cycle!Place
<1>. QED
  BY <1>3 DEF CycleStep, Cycle!Next

LEMMA RequestTooEarlyCycles ==
  ASSUME IInv, NEW d \in Devices, RequestTooEarly(d)
  PROVE  CycleStep
<1>1. PlaceOf(d).at \in {"waiting", "answered", "unanswered"} /\ PlaceOf(d)' = Place("shut", "nothing", "nothing")
  BY DEF IInv, TypeOK, RequestTooEarly, PlaceOf, Place
<1>2. \A e \in Devices : e # d => PlaceOf(e)' = PlaceOf(e)
  <2>. SUFFICES ASSUME NEW e \in Devices, e # d PROVE PlaceOf(e)' = PlaceOf(e)
    OBVIOUS
  <2>1. /\ link'[e] = link[e] /\ in_req'[e] = in_req[e] /\ write_queue'[e] = write_queue[e]
        /\ e \in unsent' <=> e \in unsent
    BY DEF IInv, TypeOK, RequestTooEarly
  <2>. QED
    BY <2>1, PlaceKept
<1>3. Cycle!AskTooEarly(d)
  BY <1>1, <1>2, OnePlace DEF Place, Cycle!AskTooEarly, Cycle!Shut, Cycle!Place
<1>. QED
  BY <1>3 DEF CycleStep, Cycle!Next

\* A response leaves the queue, written or not; on a link that was shut nobody gets it.
LEMMA SendResponseCycles ==
  ASSUME IInv, NEW d \in Devices, SendResponse(d)
  PROVE  CycleStep
<1>1. \A e \in Devices : e # d => PlaceOf(e)' = PlaceOf(e)
  BY PlaceKept DEF IInv, TypeOK, SendResponse
<1>2. Answering(link[d], Expects(d), write_queue[d], AskedIn(pending, d)) /\ link[d] \in {"up", "shut", "down"}
  BY DEF IInv, AllAnswering, TypeOK
<1>3. CASE link[d] = "up"
  <2>1. in_req[d] # "no" /\ d \notin unsent /\ Head(write_queue[d]).call.kind = in_req[d]
    BY <1>2, <1>3 DEF SendResponse, Answering, Expects
  <2>2. PlaceOf(d).at = "answered" /\ PlaceOf(d).asks = in_req[d]
    BY <1>3, <2>1 DEF SendResponse, PlaceOf, Place
  <2>3. CASE in_req' = [in_req EXCEPT ![d] = "no"]
    <3>1. PlaceOf(d)' = Place("free", "nothing", "nothing")
      BY <1>3, <2>3 DEF IInv, TypeOK, SendResponse, PlaceOf
    <3>2. Cycle!Send(d)
      BY <1>1, <2>2, <3>1, OnePlace DEF Place, Cycle!Send, Cycle!Free, Cycle!Place
    <3>. QED
      BY <3>2 DEF CycleStep, Cycle!Next
  <2>4. CASE unsent' = unsent \cup {d} /\ UNCHANGED in_req
    <3>1. PlaceOf(d)' = Place("unanswered", in_req[d], "nothing")
      BY <1>3, <2>1, <2>4 DEF SendResponse, PlaceOf
    <3>2. Cycle!Drop(d)
      BY <1>1, <2>2, <3>1, OnePlace DEF Place, Cycle!Drop, Cycle!Unanswered, Cycle!Place
    <3>. QED
      BY <3>2 DEF CycleStep, Cycle!Next
  <2>. QED
    BY <1>3, <2>3, <2>4 DEF SendResponse
<1>4. CASE link[d] # "up"
  <2>1. link[d] = "shut"
    BY <1>2, <1>4 DEF SendResponse, Answering
  <2>2. PlaceOf(d)' = PlaceOf(d)
    BY <2>1 DEF SendResponse, PlaceOf
  <2>. QED
    BY <1>1, <2>2 DEF CycleStep
<1>. QED
  BY <1>3, <1>4

\* A request becomes an op that waits, or fails at once; a failing one takes with it the
\* reads of the same id, whoever asked for them.
LEMMA RequestCycles ==
  ASSUME IInv, NEW d \in Devices, NEW kind \in Asks[d], Request(d, kind)
  PROVE  CycleStep
<1>. DEFINE p == [kind |-> kind, id |-> ids[kind] + 1, server |-> d, opcode |-> "REQ"]
<1>1. kind \in Kinds /\ kind # "no"
  BY AsksAssumption DEF Kinds
<1>2. /\ link[d] = "up" /\ link' = link /\ in_req[d] = "no" /\ in_req'[d] = kind
      /\ \A e \in Devices : e # d => in_req'[e] = in_req[e]
      /\ d \notin unsent /\ unsent' = unsent
      /\ CallIsSent(p) \/ CallFails(p)
  BY DEF IInv, TypeOK, UnsentWaits, Request, Issue
<1>3. write_queue[d] = <<>> /\ AskedIn(pending, d) = {}
  BY <1>2 DEF IInv, AllAnswering, Answering, Expects
<1>4. PlaceOf(d) = Place("free", "nothing", "nothing")
  BY <1>2 DEF PlaceOf
<1>5. p.server = d /\ p.opcode = "REQ" /\ p.kind = kind
  OBVIOUS
<1>. HIDE DEF p
<1>6. CASE CallIsSent(p)
  <2>1. write_queue' = write_queue
    BY <1>6 DEF CallIsSent
  <2>2. PlaceOf(d)' = Place("waiting", kind, "nothing")
    BY <1>1, <1>2, <1>3, <2>1 DEF PlaceOf
  <2>3. \A e \in Devices : e # d => PlaceOf(e)' = PlaceOf(e)
    BY <1>2, <2>1, PlaceKept
  <2>4. {} \in SUBSET (Cycle!Waiters \cup {d})
    OBVIOUS
  <2>. QED
    BY <1>1, <1>4, <2>2, <2>3, <2>4, Asking
<1>7. CASE CallFails(p)
  <2>. DEFINE ended == {q \in pending \cup {p} : q.kind = "read" /\ q.id = p.id}
  <2>1. write_queue' = Completed(ended, "error", NoCall)
    BY <1>7 DEF CallFails
  <2>2. ASSUME NEW e \in Devices, e # d PROVE AskedIn(ended, e) \subseteq AskedIn(pending, e)
    BY <1>5, <2>2 DEF AskedIn
  <2>3. \A q \in AskedIn(ended, d) : q = p
    BY <1>3 DEF AskedIn
  <2>. HIDE DEF ended
  <2>4. ASSUME NEW e \in Devices, e # d
        PROVE  IF e \in Told(ended)
               THEN /\ PlaceOf(e) = Place("waiting", in_req[e], "nothing")
                    /\ PlaceOf(e)' = Place("answered", in_req[e], "error")
               ELSE PlaceOf(e)' = PlaceOf(e)
    BY <1>2, <2>1, <2>2, <2>4, AnswerPlace
  <2>5. Told(ended) \in SUBSET (Cycle!Waiters \cup {d})
    BY <2>4 DEF Told, Place, Cycle!Waiters
  <2>6. PlaceOf(d)' = IF d \in Told(ended) THEN Place("answered", kind, "error")
                      ELSE Place("waiting", kind, "nothing")
    <3>1. CASE AskedIn(ended, d) = {}
      <4>1. write_queue'[d] = <<>>
        BY <1>3, <2>1, <3>1, CompletedAt
      <4>. QED
        BY <1>1, <1>2, <3>1, <4>1 DEF Told, PlaceOf
    <3>2. CASE AskedIn(ended, d) # {}
      <4>1. write_queue'[d] = Append(<<>>, Response(Call(p.kind, p.id), "error", NoCall))
        BY <1>3, <2>1, <2>3, <3>2, CompletedAt
      <4>. DEFINE new == Response(Call(p.kind, p.id), "error", NoCall)
      <4>2. new.call.kind = kind /\ new.result = "error"
        BY <1>5 DEF Response, Call
      <4>. HIDE DEF new
      <4>3. write_queue'[d] # <<>> /\ Head(write_queue'[d]) = new
        BY <4>1 DEF new
      <4>. QED
        BY <1>1, <1>2, <3>2, <4>2, <4>3 DEF Told, PlaceOf
    <3>. QED
      BY <3>1, <3>2
  <2>7. \A e \in Devices : e # d =>
          PlaceOf(e)' = IF e \in Told(ended) THEN Place("answered", PlaceOf(e).asks, "error")
                        ELSE PlaceOf(e)
    BY <2>4 DEF Place
  <2>. QED
    BY <1>1, <1>4, <2>5, <2>6, <2>7, Asking
<1>. QED
  BY <1>2, <1>6, <1>7

LEMMA RequestRefusedCycles ==
  ASSUME IInv, NEW d \in Devices, NEW kind \in Asks[d], RequestRefused(d, kind)
  PROVE  CycleStep
<1>. DEFINE new == Response(Call(kind, 0), "error", NoCall)
<1>1. kind \in Kinds /\ kind # "no"
  BY AsksAssumption DEF Kinds
<1>2. /\ link[d] = "up" /\ link' = link /\ in_req[d] = "no" /\ in_req'[d] = kind
      /\ write_queue'[d] = Append(write_queue[d], new)
      /\ \A e \in Devices : e # d => in_req'[e] = in_req[e] /\ write_queue'[e] = write_queue[e]
      /\ d \notin unsent /\ unsent' = unsent
  BY DEF IInv, TypeOK, UnsentWaits, RequestRefused, Respond
<1>3. new.call.kind = kind /\ new.result = "error"
  BY DEF Response, Call
<1>. HIDE DEF new
<1>4. write_queue[d] = <<>>
  BY <1>2 DEF IInv, AllAnswering, Answering, Expects
<1>5. write_queue'[d] # <<>> /\ Head(write_queue'[d]) = new
  BY <1>2, <1>4
<1>6. PlaceOf(d) = Place("free", "nothing", "nothing") /\ PlaceOf(d)' = Place("answered", kind, "error")
  BY <1>1, <1>2, <1>3, <1>5 DEF PlaceOf
<1>7. \A e \in Devices : e # d => PlaceOf(e)' = PlaceOf(e)
  BY <1>2, PlaceKept
<1>8. {d} \in SUBSET (Cycle!Waiters \cup {d})
  OBVIOUS
<1>. QED
  BY <1>1, <1>6, <1>7, <1>8, Asking

\* A command is answered to nobody; one that fails may end a read.
LEMMA WriteCommandCycles ==
  ASSUME IInv, NEW d \in Devices, WriteCommand(d)
  PROVE  CycleStep
<1>. DEFINE p == [kind |-> "write", id |-> ids["write"] + 1, server |-> d, opcode |-> "CMD"]
<1>1. p.opcode # "REQ" /\ UNCHANGED <<link, in_req, unsent>> /\ (CallIsSent(p) \/ CallFails(p))
  BY DEF WriteCommand, Issue
<1>. HIDE DEF p
<1>2. CASE CallIsSent(p)
  <2>1. UNCHANGED devices
    BY <1>1, <1>2 DEF CallIsSent, devices
  <2>. QED
    BY <2>1, DevicesKept DEF CycleStep
<1>3. CASE CallFails(p)
  <2>. DEFINE ended == {q \in pending \cup {p} : q.kind = "read" /\ q.id = p.id}
  <2>1. write_queue' = Completed(ended, "error", NoCall)
    BY <1>3 DEF CallFails
  <2>2. \A e \in Devices : AskedIn(ended, e) \subseteq AskedIn(pending, e)
    BY <1>1 DEF AskedIn
  <2>. HIDE DEF ended
  <2>. QED
    BY <1>1, <2>1, <2>2, Failing
<1>. QED
  BY <1>1, <1>2, <1>3

\* Fewer ops are asked for by fewer.
LEMMA AskedInFewer ==
  ASSUME NEW ops, NEW done \in SUBSET ops
  PROVE  \A d \in Devices : AskedIn(done, d) \subseteq AskedIn(ops, d)
BY DEF AskedIn

\* A reply ends one op at most, so that one device at most is told of success.
LEMMA DeliverReplyCycles ==
  ASSUME IInv, OpsApart, DeliverReply
  PROVE  CycleStep
<1>. DEFINE reply == Head(replies)
            done == IF reply.call \in owned THEN Named(reply.call) ELSE {}
<1>. DEFINE Replies == [call : Calls, result : {"ok", "error"}]
<1>1. reply.result \in {"ok", "error"}
  <2>1. replies \in Seq(Replies) /\ replies # <<>>
    BY DEF DeliverReply, IInv, TypeOK
  <2>. HIDE DEF Replies
  <2>2. reply \in Replies
    BY <2>1
  <2>. QED
    BY <2>2 DEF Replies
<1>2. done \in SUBSET pending /\ \A p, q \in done : p = q
  BY DEF Named, OpsApart
<1>3. write_queue' = Completed(done, reply.result, reply.call) /\ UNCHANGED <<link, in_req, unsent>>
  BY DEF DeliverReply
<1>. HIDE DEF reply, done
<1>4. \A d \in Devices : AskedIn(done, d) \subseteq AskedIn(pending, d)
  BY <1>2, AskedInFewer
<1>5. CASE reply.result = "error"
  BY <1>3, <1>4, <1>5, Failing
<1>6. CASE reply.result = "ok"
  <2>1. ASSUME NEW d \in Devices
        PROVE  IF d \in Told(done)
               THEN /\ PlaceOf(d) = Place("waiting", in_req[d], "nothing")
                    /\ PlaceOf(d)' = Place("answered", in_req[d], "ok")
               ELSE PlaceOf(d)' = PlaceOf(d)
    BY <1>3, <1>4, <1>6, AnswerPlace
  <2>2. CASE Told(done) = {}
    BY <2>1, <2>2 DEF CycleStep
  <2>3. CASE Told(done) # {}
    <3>1. PICK d \in Told(done) : TRUE
      BY <2>3
    <3>2. d \in Devices /\ \A e \in Devices : e # d => e \notin Told(done)
      BY <1>2, <3>1 DEF Told, AskedIn
    <3>3. \A e \in Devices : e # d => PlaceOf(e)' = PlaceOf(e)
      BY <2>1, <3>2
    <3>4. Cycle!Succeed(d)
      BY <2>1, <3>1, <3>2, <3>3, OnePlace
        DEF Place, Cycle!Succeed, Cycle!Waiters, Cycle!Answered, Cycle!Place
    <3>. QED
      BY <3>2, <3>4 DEF CycleStep, Cycle!Next
  <2>. QED
    BY <2>2, <2>3
<1>. QED
  BY <1>1, <1>5, <1>6

LEMMA TimeoutCycles ==
  ASSUME IInv, NEW p \in pending, Timeout(p)
  PROVE  CycleStep
<1>1. \A d \in Devices : AskedIn({p}, d) \subseteq AskedIn(pending, d)
  BY AskedInFewer
<1>. QED
  BY <1>1, Failing DEF Timeout

LEMMA ClientDisconnectCycles ==
  ASSUME IInv, ClientDisconnect
  PROVE  CycleStep
BY Failing DEF ClientDisconnect

\* The way of a request through link, server, database, bus and application implements the
\* cycle of RequestCycle, for any number of devices and requests, whatever is late or lost.
THEOREM Refinement == Spec => RefinesRequestCycle
<1>1. Init => Cycle!Init
  BY DEF Init, PlaceOf, Place, Cycle!Init, Cycle!Away, Cycle!Place
<1>2. IInv /\ OpsApart /\ [Next]_vars => CycleStep
  <2>. SUFFICES ASSUME IInv, OpsApart, [Next]_vars PROVE CycleStep
    OBVIOUS
  <2>1. ASSUME NEW d \in Devices, Connect(d) PROVE CycleStep BY <2>1, ConnectCycles
  <2>2. ASSUME NEW d \in Devices, LinkLost(d) PROVE CycleStep BY <2>2, LinkLostCycles
  <2>3. ASSUME NEW d \in Devices, RequestTooEarly(d) PROVE CycleStep BY <2>3, RequestTooEarlyCycles
  <2>4. ASSUME NEW d \in Devices, SendResponse(d) PROVE CycleStep BY <2>4, SendResponseCycles
  <2>5. ASSUME NEW d \in Devices, WriteCommand(d) PROVE CycleStep BY <2>5, WriteCommandCycles
  <2>6. ASSUME NEW d \in Devices, NEW kind \in Asks[d], Request(d, kind) PROVE CycleStep
    BY <2>6, RequestCycles
  <2>7. ASSUME NEW d \in Devices, NEW kind \in Asks[d], RequestRefused(d, kind) PROVE CycleStep
    BY <2>7, RequestRefusedCycles
  <2>8. CASE DeliverReply BY <2>8, DeliverReplyCycles
  <2>9. ASSUME NEW p \in pending, Timeout(p) PROVE CycleStep BY <2>9, TimeoutCycles
  <2>10. CASE ClientDisconnect BY <2>10, ClientDisconnectCycles
  <2>11. CASE AppHandles \/ AppRegisters \/ AppExits \/ UNCHANGED vars
    <3>1. UNCHANGED devices
      BY <2>11 DEF AppHandles, AppRegisters, AppExits, vars
    <3>. QED
      BY <3>1, DevicesKept DEF CycleStep
  <2>. QED
    BY <2>1, <2>2, <2>3, <2>4, <2>5, <2>6, <2>7, <2>8, <2>9, <2>10, <2>11 DEF Next
<1>. QED
  BY <1>1, <1>2, Invariance, ApartInvariance, PTL DEF Spec, CycleStep, RefinesRequestCycle, Cycle!Spec
=============================================================================
