---------------------------- MODULE GattRequests ----------------------------
(***************************************************************************)
(* Reads and writes of one characteristic of example-gatt-server (such as  *)
(* the mode) on their way through bluetoothd: shared/att.c takes the       *)
(* request off the link, shared/gatt-server.c and shared/gatt-db.c keep it *)
(* pending with a timeout of 5 s, gatt-database.c passes it to the         *)
(* application over D-Bus, and the reply takes the same way back.          *)
(*                                                                         *)
(* The connection may go, the timeout may fire, the application may exit   *)
(* and the response may not be written at any point of that way; each of   *)
(* the layers then keeps a record that the next reply must not be mistaken *)
(* for.  bluetoothd runs one main loop, so each of its handlers is one     *)
(* step.                                                                   *)
(***************************************************************************)
EXTENDS Naturals, Sequences, FiniteSets

CONSTANTS
  Devices,      \* remote devices, each with one link at a time
  Asks,         \* bound: what each device asks for, a subset of Kinds
  MaxIds,       \* bound: reads, and writes, of one gatt_db_attribute
  MaxInFlight,  \* bound: calls and replies on their way
  MaxApps       \* bound: times the application registers

ASSUME DevicesAssumption == IsFiniteSet(Devices)
ASSUME AsksAssumption == Asks \in [Devices -> SUBSET {"read", "write"}]
ASSUME BoundsAssumption == MaxIds \in [{"read", "write"} -> Nat] /\ MaxInFlight \in Nat /\ MaxApps \in Nat

Kinds == {"read", "write"}
None == "none"   \* the server of an op whose connection has ended

ASSUME NoneAssumption == None \notin Devices

VARIABLES
  link,          \* "up", "shut" after io_shutdown, or "down": no bt_att, no bt_gatt_server
  in_req,        \* bt_att.in_req: "no", or what the request asks for
  write_queue,   \* responses that wait for the socket
  unsent,        \* history: devices whose response could not be written, the link still up
  pending,       \* pending reads and writes of the attribute, each with its async op
  ids,           \* read_id and write_id of the attribute
  owned,         \* pending_op whose owner_queue is set
  calls,         \* ReadValue and WriteValue on their way to the application
  replies,       \* method returns and errors on their way back
  app,           \* "up"; "exited" while bluetoothd does not know yet; "down"
  generation     \* history: times the application has registered

devices == <<link, in_req, write_queue, unsent>>
application == <<calls, replies, app, generation>>
vars == <<devices, pending, ids, owned, application>>

\* An operation of the attribute that the present application registered
Call(kind, id) == [kind |-> kind, id |-> id, generation |-> generation]
NoCall == [kind |-> "read", id |-> 0, generation |-> 0]

Init ==
  /\ link = [d \in Devices |-> "down"] /\ in_req = [d \in Devices |-> "no"]
  /\ write_queue = [d \in Devices |-> <<>>] /\ unsent = {}
  /\ pending = {} /\ owned = {}
  /\ ids = [k \in Kinds |-> 0]
  /\ calls = <<>> /\ replies = <<>>
  /\ app = "down" /\ generation = 0

\* What a device is told: the result of its request, and, for the history, what it asked
\* for and whose result it is told; an id of 0 stands for no call at all
Response(call, result, of) == [call |-> call, result |-> result, of |-> of]

Respond(d, response) == [write_queue EXCEPT ![d] = Append(@, response)]

\* Mutant: a write command is answered like a request
CompletedCommands(done, result, of) ==
  [d \in Devices |->
     LET asked == {p \in done : p.server = d}
     IN  IF asked = {} THEN write_queue[d]
         ELSE LET p == CHOOSE p \in asked : TRUE
              IN  Append(write_queue[d], Response(Call(p.kind, p.id), result, of))]

\* read_complete_cb and write_complete_cb of all entries in done: the server that asked is
\* answered, if it is still there, unless it asked with a command
Completed(done, result, of) ==
  [d \in Devices |->
     LET asked == {p \in done : p.server = d /\ p.opcode = "REQ"}
     IN  IF asked = {} THEN write_queue[d]
         ELSE LET p == CHOOSE p \in asked : TRUE
              IN  Append(write_queue[d], Response(Call(p.kind, p.id), result, of))]

\* pending_read_op or pending_write_op of the device's server is set
Busy(d, kind) == \E p \in pending : p.kind = kind /\ p.server = d

----------------------------------------------------------------------------
(* The link                                                                *)

Connect(d) ==
  /\ link[d] = "down"
  /\ link' = [link EXCEPT ![d] = "up"]
  /\ UNCHANGED <<in_req, write_queue, unsent, pending, ids, owned, application>>

\* Mutant: the responses stay queued when the link goes
LinkLostKeepsQueue(d) ==
  /\ link[d] # "down"
  /\ link' = [link EXCEPT ![d] = "down"]
  /\ in_req' = [in_req EXCEPT ![d] = "no"]
  /\ unsent' = unsent \ {d}
  /\ pending' = {IF p.server = d THEN [p EXCEPT !.server = None] ELSE p : p \in pending}
  /\ UNCHANGED <<write_queue, ids, owned, application>>

\* Mutant: the ops keep their pointer to a server that was freed
LinkLostKeepsServer(d) ==
  /\ link[d] # "down"
  /\ link' = [link EXCEPT ![d] = "down"]
  /\ in_req' = [in_req EXCEPT ![d] = "no"]
  /\ write_queue' = [write_queue EXCEPT ![d] = <<>>] /\ unsent' = unsent \ {d}
  /\ UNCHANGED <<pending, ids, owned, application>>

\* disconnect_cb with bt_gatt_server_free: the ops live on without a server
LinkLost(d) ==
  /\ link[d] # "down"
  /\ link' = [link EXCEPT ![d] = "down"]
  /\ in_req' = [in_req EXCEPT ![d] = "no"]
  /\ write_queue' = [write_queue EXCEPT ![d] = <<>>] /\ unsent' = unsent \ {d}
  /\ pending' = {IF p.server = d THEN [p EXCEPT !.server = None] ELSE p : p \in pending}
  /\ UNCHANGED <<ids, owned, application>>

\* can_read_data, when a request is pending: the device broke the sequential protocol
RequestTooEarly(d) ==
  /\ link[d] = "up" /\ in_req[d] # "no"
  /\ link' = [link EXCEPT ![d] = "shut"] /\ unsent' = unsent \ {d}
  /\ UNCHANGED <<in_req, write_queue, pending, ids, owned, application>>

\* can_write_data: once the response is out, the device may ask again.  io_send fails on a
\* socket that is shut, and may fail on any other; the response is then destroyed, and the
\* device, on a link that is up, goes on being taken for one that waits.
SendResponse(d) ==
  /\ write_queue[d] # <<>>
  /\ write_queue' = [write_queue EXCEPT ![d] = Tail(@)]
  /\ \/ link[d] = "up" /\ in_req' = [in_req EXCEPT ![d] = "no"] /\ UNCHANGED unsent
     \/ /\ unsent' = IF link[d] = "up" THEN unsent \cup {d} ELSE unsent
        /\ UNCHANGED in_req
  /\ UNCHANGED <<link, pending, ids, owned, application>>

----------------------------------------------------------------------------
(* From the request to the call                                            *)

\* chrc_read_cb or chrc_write_cb found no way to call: the read is answered at once.  For
\* a write, too, the result is reported to gatt_db_attribute_read_result: it ends the
\* read that happens to have the same id, and leaves the write to its timeout.
CallFails(p) ==
  LET ended == {q \in pending \cup {p} : q.kind = "read" /\ q.id = p.id}
  IN  /\ pending' = (pending \cup {p}) \ ended
      /\ write_queue' = Completed(ended, "error", NoCall)
      /\ UNCHANGED <<owned, calls>>

\* send_read or send_write
CallIsSent(p) ==
  /\ Len(calls) + Len(replies) < MaxInFlight
  /\ pending' = pending \cup {p}
  /\ owned' = owned \cup {Call(p.kind, p.id)}
  /\ calls' = Append(calls, Call(p.kind, p.id))
  /\ UNCHANGED write_queue

\* gatt_db_attribute_read or gatt_db_attribute_write of an async op
Issue(d, kind, opcode) ==
  LET p == [kind |-> kind, id |-> ids[kind] + 1, server |-> d, opcode |-> opcode]
  IN  /\ app # "down" /\ ~Busy(d, kind) /\ ids[kind] < MaxIds[kind]
      /\ ids' = [ids EXCEPT ![kind] = @ + 1]
      /\ CallIsSent(p) \/ CallFails(p)
      /\ UNCHANGED <<link, unsent, replies, app, generation>>

\* can_read_data with handle_read_req or write_cb
Request(d, kind) ==
  /\ link[d] = "up" /\ in_req[d] = "no"
  /\ in_req' = [in_req EXCEPT ![d] = kind]
  /\ Issue(d, kind, "REQ")

\* ... without an attribute to ask for, or while a command is still being written
RequestRefused(d, kind) ==
  /\ link[d] = "up" /\ in_req[d] = "no"
  /\ app = "down" \/ Busy(d, kind)
  /\ in_req' = [in_req EXCEPT ![d] = kind]
  /\ write_queue' = Respond(d, Response(Call(kind, 0), "error", NoCall))
  /\ UNCHANGED <<link, unsent, pending, ids, owned, application>>

\* write_cb for a write command, which asks for no response; it is dropped when the
\* server still has a write pending
WriteCommand(d) ==
  /\ link[d] = "up" /\ "write" \in Asks[d]
  /\ Issue(d, "write", "CMD")
  /\ UNCHANGED in_req

----------------------------------------------------------------------------
(* From the call to the response                                           *)

\* The application's main loop: a write is carried out or refused
AppHandles ==
  /\ app = "up" /\ calls # <<>>
  /\ calls' = Tail(calls)
  /\ \E result \in {"ok", "error"} :
       replies' = Append(replies, [call |-> Head(calls), result |-> result])
  /\ UNCHANGED <<devices, pending, ids, owned, app, generation>>

\* The entry a pending_op stands for, when it is still there
Named(call) == {p \in pending : p.kind = call.kind /\ p.id = call.id}

\* Mutant: the result is reported although the characteristic was removed
DeliverReplyUnowned ==
  /\ replies # <<>>
  /\ LET call == Head(replies).call
     IN  /\ owned' = owned \ {call}
         /\ pending' = pending \ Named(call)
         /\ write_queue' = Completed(Named(call), Head(replies).result, call)
  /\ replies' = Tail(replies)
  /\ UNCHANGED <<link, in_req, unsent, ids, calls, app, generation>>

\* read_reply_cb or write_reply_cb, then pending_op_free: nothing is reported once the
\* characteristic was removed; after a timeout there is no entry any more to report to
DeliverReply ==
  /\ replies # <<>>
  /\ LET call == Head(replies).call
         done == IF call \in owned THEN Named(call) ELSE {}
     IN  /\ owned' = owned \ {call}
         /\ pending' = pending \ done
         /\ write_queue' = Completed(done, Head(replies).result, call)
  /\ replies' = Tail(replies)
  /\ UNCHANGED <<link, in_req, unsent, ids, calls, app, generation>>

\* Mutant: the entry is removed and nobody told
TimeoutSilent(p) ==
  /\ pending' = pending \ {p}
  /\ UNCHANGED <<devices, ids, owned, application>>

\* read_timeout or write_timeout
Timeout(p) ==
  /\ pending' = pending \ {p}
  /\ write_queue' = Completed({p}, "error", NoCall)
  /\ UNCHANGED <<link, in_req, unsent, ids, owned, application>>

----------------------------------------------------------------------------
(* The application comes and goes                                          *)

\* manager_register_app and client_ready_cb
AppRegisters ==
  /\ app = "down" /\ generation < MaxApps
  /\ app' = "up" /\ generation' = generation + 1
  /\ UNCHANGED <<devices, pending, ids, owned, calls, replies>>

\* The process ends; the D-Bus daemon answers the calls it has not handled with NoReply
AppExits ==
  /\ app = "up"
  /\ app' = "exited"
  /\ replies' = replies \o [i \in DOMAIN calls |-> [call |-> calls[i], result |-> "error"]]
  /\ calls' = <<>>
  /\ UNCHANGED <<devices, pending, ids, owned, generation>>

\* client_disconnect_cb: chrc_free cancels what is owned, gatt_db_remove_service with
\* attribute_destroy what else is pending; the next attribute starts with new ids
ClientDisconnect ==
  /\ app = "exited"
  /\ app' = "down"
  /\ owned' = {} /\ pending' = {}
  /\ write_queue' = Completed(pending, "error", NoCall)
  /\ calls' = <<>>
  /\ ids' = [k \in Kinds |-> 0]
  /\ UNCHANGED <<link, in_req, unsent, replies, generation>>

Next ==
  \/ \E d \in Devices :
       \/ Connect(d) \/ LinkLost(d) \/ RequestTooEarly(d) \/ SendResponse(d) \/ WriteCommand(d)
       \/ \E kind \in Asks[d] : Request(d, kind) \/ RequestRefused(d, kind)
  \/ AppHandles \/ DeliverReply \/ \E p \in pending : Timeout(p)
  \/ AppRegisters \/ AppExits \/ ClientDisconnect

\* Timers fire, the socket takes the responses or refuses them, and the end of a link that
\* was shut is noticed; nothing is assumed of the application or of D-Bus.
Spec ==
  /\ Init /\ [][Next]_vars
  /\ WF_vars(\E p \in pending : Timeout(p))
  /\ \A d \in Devices : WF_vars(SendResponse(d)) /\ WF_vars(link[d] = "shut" /\ LinkLost(d))

----------------------------------------------------------------------------
(* Properties                                                              *)

Ids == 0..(MaxIds["read"] + MaxIds["write"])
Calls == [kind : Kinds, id : Ids, generation : 0..MaxApps]
Responses == [call : Calls, result : {"ok", "error"}, of : Calls]
Ops == [kind : Kinds, id : Ids, server : Devices \cup {None}, opcode : {"REQ", "CMD"}]

TypeOK ==
  /\ link \in [Devices -> {"up", "shut", "down"}]
  /\ in_req \in [Devices -> Kinds \cup {"no"}]
  /\ write_queue \in [Devices -> Seq(Responses)]
  /\ unsent \subseteq {d \in Devices : link[d] = "up"}
  /\ \A d \in Devices : link[d] = "down" => in_req[d] = "no" /\ write_queue[d] = <<>>
  /\ pending \subseteq Ops
  /\ ids \in [Kinds -> Ids]
  /\ owned \subseteq Calls
  /\ calls \in Seq(Calls) /\ replies \in Seq([call : Calls, result : {"ok", "error"}])
  /\ app \in {"up", "exited", "down"} /\ generation \in 0..MaxApps

\* Requests of the device's present server that still have to be completed
Asked(d) == {p \in pending : p.server = d /\ p.opcode = "REQ"}

\* What the device will still be told the result of
Expects(d) == IF d \in unsent THEN "no" ELSE in_req[d]

\* On a link that is up, a device that waits has exactly one answer under way, to what it
\* asked: in the queue, or as one op that will complete; a device that does not wait has
\* none.  No timeout, late reply, cancelled call or lost link answers twice, or answers a
\* request of an earlier link.  A device whose answer could not be written has no other
\* under way, and may not ask for one on that link.
OneAnswerEach ==
  \A d \in Devices : link[d] = "up" =>
    LET answers == {write_queue[d][i].call.kind : i \in DOMAIN write_queue[d]} \cup {p.kind : p \in Asked(d)}
    IN  /\ Len(write_queue[d]) + Cardinality(Asked(d)) <= 1
        /\ answers = IF Expects(d) = "no" THEN {} ELSE {Expects(d)}
        /\ d \in unsent => in_req[d] # "no"

\* A device is told that its read or write succeeded only when the application has carried
\* out that very one, also when a new application has its requests counted from one
\* again.  The converse fails: a write that was reported as timed out or cancelled may
\* have been carried out, or may still be.
SuccessIsItsOwn ==
  \A d \in Devices : \A i \in DOMAIN write_queue[d] :
    write_queue[d][i].result = "ok" => write_queue[d][i].of = write_queue[d][i].call

\* Where a device is in its cycle of requests
Place(at, asks, told) == [at |-> at, asks |-> asks, told |-> told]

PlaceOf(d) ==
  IF link[d] = "down" THEN Place("away", "nothing", "nothing")
  ELSE IF link[d] = "shut" THEN Place("shut", "nothing", "nothing")
  ELSE IF in_req[d] = "no" THEN Place("free", "nothing", "nothing")
  ELSE IF d \in unsent THEN Place("unanswered", in_req[d], "nothing")
  ELSE IF write_queue[d] = <<>> THEN Place("waiting", in_req[d], "nothing")
  ELSE Place("answered", Head(write_queue[d]).call.kind, Head(write_queue[d]).result)

Cycle == INSTANCE RequestCycle WITH cycle <- [d \in Devices |-> PlaceOf(d)]

\* The layers of bluetoothd, the bus and the application together implement the cycle of
\* RequestCycle: a device asks, is answered once and may ask again, unless its answer was
\* lost on the last yard.  What comes late, after a timeout, on another link or from an
\* application that is gone, is no answer to anybody.
RefinesRequestCycle == Cycle!Spec

\* No device waits for ever, although the application may never reply: its link ends or
\* it may ask again, unless its response could not be written.  Nothing in bluetoothd ends
\* that wait but the end of the link.
RequestsEnd == \A d \in Devices : []<>(in_req[d] = "no" \/ d \in unsent)
=============================================================================
