-------------------------- MODULE ManagedTxProofs ---------------------------
(***************************************************************************)
(* Proofs about ManagedTx: its types, that a call is pinned to its own     *)
(* transaction, what nil and an error mean, and what is left open.         *)
(*                                                                         *)
(* The client learns of the cluster only through answers, and the cluster  *)
(* of the client only through requests that may be late.  The inductive    *)
(* invariant says what a request on its way and an answer not yet looked   *)
(* at imply for the transactions of their call.                            *)
(***************************************************************************)
EXTENDS ManagedTx, FiniteSetTheorems, SequenceTheorems, TLAPS

Id(n) == 1..Len(log[n])

(* What may have been done in a transaction that is open or committed. *)
Begun(c) == << <<c, "begin">> >>
Done(c) == << <<c, "begin">>, <<c, "execute">> >>
Undone(c) == << <<c, "begin">>, <<c, "failed">> >>
Flawed(c) == << <<c, "begin">>, <<c, "failed">>, <<c, "commit">> >>

(* u is the URL of a transaction that c began. *)
At(u) == log[u.host][u.id]
Names(c, u) == u.host \in Nodes /\ u.id \in Id(u.host) /\ Owner(At(u)) = c
In(c, u, state) == Names(c, u) /\ At(u).state = state

Excused(c) ==
  expired[c] \/ hit[c] \cap {"begin", "commit", "rollback", "location", "replay"} # {}

Sent(c, op) == <<c, op>> \in pending
Awaited(c, op) == pc[c] = op /\ response[c] = NoResponse
Located(c) == pc[c] = "begin" /\ response[c].kind = "ok"

-----------------------------------------------------------------------------
(* What the place a call is in says of its URL, its answer and its outcome. *)
Placed(c) ==
  /\ pc[c] \in {"start", "begin"} => url[c] = NoUrl
  /\ pc[c] \in {"execute", "commit", "rollback"} => url[c] # NoUrl
  /\ pc[c] \in {"start", "returned"} => response[c] = NoResponse
  /\ response[c].kind = "none" => response[c] = NoResponse
  /\ ret[c] # "none" <=> pc[c] = "returned"
  /\ url[c] # NoUrl => Names(c, url[c])
  /\ Located(c) => Names(c, response[c].location)

(* Where a call can be while a request of its is on its way. *)
OnTheWay(c) ==
  /\ Sent(c, "begin") =>
       \/ Awaited(c, "begin")
       \/ pc[c] = "returned" /\ url[c] = NoUrl /\ Excused(c)
  /\ Sent(c, "execute") =>
       url[c] # NoUrl /\ (Awaited(c, "execute") \/ pc[c] = "rollback" \/ ret[c] = "err")
  /\ Sent(c, "commit") =>
       /\ url[c] # NoUrl
       /\ \/ Awaited(c, "commit")
          \/ ret[c] = "err" /\ (expired[c] \/ "commit" \in hit[c])
  /\ Sent(c, "rollback") =>
       url[c] # NoUrl /\ (Awaited(c, "rollback") \/ ret[c] = "err")

(* What was done in the transactions of a call, by their state. *)
Shaped(c) ==
  \A u \in Urls : Names(c, u) =>
    /\ \A j \in 1..Len(At(u).ops) : At(u).ops[j][1] = c
    /\ At(u).state = "open" => At(u).ops \in {Begun(c), Done(c), Undone(c)}
    /\ At(u).state = "committed" =>
         At(u).ops = Whole(c) \/ (At(u).ops = Flawed(c) /\ "unreadable" \in hit[c])

(* What has been done so far in the open transaction of a call. *)
Pending(c) ==
  /\ Located(c) /\ In(c, response[c].location, "open") =>
       At(response[c].location).ops = Begun(c)
  /\ In(c, url[c], "open") =>
       /\ Sent(c, "execute") => At(url[c]).ops = Begun(c)
       /\ pc[c] = "execute" /\ response[c].kind = "ok" => At(url[c]).ops = Done(c)
       /\ pc[c] = "execute" /\ response[c].kind = "errors" => At(url[c]).ops = Undone(c)
       /\ pc[c] = "commit" \/ Sent(c, "commit") =>
            \/ At(url[c]).ops = Done(c)
            \/ At(url[c]).ops = Undone(c) /\ "unreadable" \in hit[c]

(* The transaction of a call that was committed is the one it asked for, and *)
(* the call knows, unless its exchange broke.                                *)
Known(c) ==
  /\ \A u \in Urls : In(c, u, "committed") =>
       /\ url[c] = u
       /\ ~Sent(c, "commit")
       /\ \/ pc[c] = "commit" /\ response[c].kind = "ok"
          \/ ret[c] = "nil"
          \/ ret[c] = "err" /\ (expired[c] \/ "commit" \in hit[c])
  /\ (\/ pc[c] = "commit" /\ response[c].kind = "ok"
      \/ ret[c] = "nil" /\ "unreadable" \notin hit[c])
       => In(c, url[c], "committed")

(* Who will end an open transaction. *)
Cleaned(c) == ~Excused(c) =>
  /\ \A u \in Urls : In(c, u, "open") =>
       url[c] = u \/ (Located(c) /\ response[c].location = u)
  /\ In(c, url[c], "open") =>
       /\ pc[c] # "returned"
       /\ pc[c] \in {"commit", "rollback"} => Sent(c, pc[c]) /\ response[c] = NoResponse

CallOK(c) == Placed(c) /\ OnTheWay(c) /\ Shaped(c) /\ Pending(c) /\ Known(c) /\ Cleaned(c)

(* Every transaction was begun by a call. *)
Owned ==
  \A n \in Nodes : \A id \in Id(n) : log[n][id].ops # <<>> /\ Owner(log[n][id]) \in Calls

Invariant == TypeOK /\ Owned /\ \A c \in Calls : CallOK(c)

-----------------------------------------------------------------------------
(***************************************************************************)
(* Types.                                                                  *)
(***************************************************************************)
LEMMA NoUrlType == NoUrl \in Urls /\ NoResponse \in Responses
BY DEF Urls, NoUrl, Hosts, Responses, NoResponse

LEMMA OpenType ==
  ASSUME TypeOK, NEW c \in Calls, NEW n \in Nodes, Open(c, n)
  PROVE  log' \in [Nodes -> Seq(Transactions)]
<1>1. [state |-> "open", ops |-> Begun(c)] \in Transactions
  BY DEF Transactions, Begun, Entries, Ops
<1>2. log[n] \in Seq(Transactions)
  BY DEF TypeOK
<1> QED  BY <1>1, <1>2 DEF Open, Begun, TypeOK

LEMMA UpdateType ==
  ASSUME TypeOK, NEW c \in Calls, NEW n \in Nodes, NEW id \in Id(n),
         NEW state \in {"open", "committed", "closed"}, NEW what \in Ops \cup {"failed"},
         Update(n, id, state, <<c, what>>)
  PROVE  log' \in [Nodes -> Seq(Transactions)]
<1>1. /\ log[n] \in Seq(Transactions) /\ log[n][id] \in Transactions
      /\ <<c, what>> \in Entries
  BY DEF TypeOK, Id, Entries
<1>2. [state |-> state, ops |-> Append(log[n][id].ops, <<c, what>>)] \in Transactions
  BY <1>1 DEF Transactions
<1>3. log' = [log EXCEPT ![n] = [log[n] EXCEPT ![id] =
                [state |-> state, ops |-> Append(log[n][id].ops, <<c, what>>)]]]
  BY DEF Update
<1> QED  BY <1>1, <1>2, <1>3 DEF TypeOK, Id

LEMMA ExpireType ==
  ASSUME TypeOK, NEW n \in Nodes, NEW id \in Id(n),
         log' = [log EXCEPT ![n][id].state = "closed"]
  PROVE  log' \in [Nodes -> Seq(Transactions)]
<1>1. /\ log[n] \in Seq(Transactions) /\ log[n][id] \in Transactions
  BY DEF TypeOK, Id
<1>2. [log[n][id] EXCEPT !.state = "closed"] \in Transactions
  BY <1>1 DEF Transactions
<1>3. log' = [log EXCEPT ![n] = [log[n] EXCEPT ![id] = [log[n][id] EXCEPT !.state = "closed"]]]
  OBVIOUS
<1> QED  BY <1>1, <1>2, <1>3 DEF TypeOK, Id

Histories == SUBSET (Ops \cup {"unreadable", "location", "replay"})

LEMMA FaultType ==
  ASSUME TypeOK, NEW c \in Calls, NEW what \in Ops \cup {"unreadable", "location", "replay"},
         Fault(c, what) \/ UNCHANGED faultVars
  PROVE  hit' \in [Calls -> Histories] /\ faults' \in 0..MaxFaults
<1>1. /\ hit \in [Calls -> Histories] /\ hit[c] \cup {what} \in Histories
      /\ faults \in 0..MaxFaults
  BY DEF TypeOK, Histories
<1>2. CASE Fault(c, what)
  BY <1>1, <1>2, FaultAssumption DEF Fault
<1>3. CASE UNCHANGED faultVars
  BY <1>1, <1>3 DEF faultVars
<1> QED  BY <1>2, <1>3

LEMMA ReplyType ==
  ASSUME TypeOK, NEW c \in Calls, NEW op \in Ops, NEW location \in Urls,
         NEW kind \in {"ok", "status", "errors", "noLocation"},
         Reply(c, op, kind, location)
  PROVE  response' \in [Calls -> Responses] /\ pending' \subseteq Calls \X Ops
<1>1. [kind |-> kind, location |-> location] \in Responses
  BY DEF Responses
<1> QED  BY <1>1 DEF Reply, TypeOK

LEMMA TypeInit == Init => TypeOK
BY FaultAssumption DEF Init, TypeOK, Urls, NoUrl, Hosts, Responses, NoResponse

LEMMA TypeClient ==
  ASSUME TypeOK, NEW c \in Calls, CallBegin(c) \/ Client(c) \/ Deadline(c)
  PROVE  TypeOK'
<1> USE NoUrlType
<1>1. CASE CallBegin(c)
  BY <1>1 DEF CallBegin, Enter, TypeOK, clientVars, faultVars, Ops
<1>2. CASE BeginSucceeds(c)
  BY <1>2 DEF BeginSucceeds, Enter, Resolve, TypeOK, clientVars, faultVars, Ops, Responses
<1> DEFINE Outside == hit' \in [Calls -> Histories] /\ faults' \in 0..MaxFaults
<1>3. \A op \in Ops : Accepts(c, op) \/ Rejects(c, op) \/ DoFails(c, op) => Outside
  BY FaultType DEF Accepts, Rejects, DoFails
<1>4. CASE BeginFails(c)
  <2>1. Outside
    BY <1>3, <1>4, FaultType DEF BeginFails, Ops
  <2> QED  BY <1>4, <2>1 DEF BeginFails, Return, TypeOK, Histories
<1>5. CASE ExecuteSucceeds(c) \/ ExecuteFails(c)
  <2>1. Outside
    BY <1>3, <1>5 DEF ExecuteSucceeds, ExecuteFails, Ops
  <2> QED  BY <1>5, <2>1 DEF ExecuteSucceeds, ExecuteFails, Enter, TypeOK, Histories, Ops
<1>6. CASE RollbackEnds(c)
  <2>1. Outside
    BY <1>3, <1>6, FaultType DEF RollbackEnds, Ops
  <2> QED  BY <1>6, <2>1 DEF RollbackEnds, Return, TypeOK, Histories
<1>7. CASE CommitSucceeds(c) \/ CommitFails(c)
  <2>1. Outside
    BY <1>3, <1>7 DEF CommitSucceeds, CommitFails, Ops
  <2>2. \E r \in {"nil", "err"} : Return(c, r) /\ UNCHANGED <<legacy, expired, url, log>>
    BY <1>7 DEF CommitSucceeds, CommitFails
  <2> QED  BY <2>1, <2>2 DEF Return, TypeOK, Histories
<1>8. CASE Deadline(c)
  BY <1>8 DEF Deadline, TypeOK, clientVars, faultVars
<1> QED  BY <1>1, <1>2, <1>4, <1>5, <1>6, <1>7, <1>8 DEF Client

LEMMA TypeServe ==
  ASSUME TypeOK, NEW c \in Calls, Serve(c)
  PROVE  TypeOK'
<1> USE NoUrlType DEF Ops
<1> DEFINE Rest == UNCHANGED <<legacy, clientVars, expired>>
           Answers == response' \in [Calls -> Responses] /\ pending' \subseteq Calls \X Ops
           Outside == hit' \in [Calls -> Histories] /\ faults' \in 0..MaxFaults
           Served == log' \in [Nodes -> Seq(Transactions)]
<1>1. SUFFICES Rest /\ Answers /\ Outside /\ Served
  BY DEF TypeOK, clientVars, Histories
<1>2. UNCHANGED log => Served
  BY DEF TypeOK
<1>3. UNCHANGED faultVars => Outside
  BY FaultType
<1>4. ASSUME NEW n \in Nodes, ServeBegin(c, n) PROVE Rest /\ Answers /\ Outside /\ Served
  <2>1. [host |-> n, id |-> Len(log[n]) + 1] \in Urls
    BY DEF Urls, Hosts, TypeOK
  <2>2. Answers
    BY <1>4, <2>1, ReplyType DEF ServeBegin
  <2>3. Outside
    BY <1>4, FaultType DEF ServeBegin
  <2> QED  BY <1>4, <2>2, <2>3, OpenType DEF ServeBegin
<1>5. ASSUME NEW n \in Nodes, ReplayBegin(c, n) PROVE Rest /\ Answers /\ Outside /\ Served
  <2>1. Outside
    BY <1>5, FaultType DEF ReplayBegin
  <2>2. Answers
    BY <1>5 DEF ReplayBegin, TypeOK
  <2> QED  BY <1>5, <2>1, <2>2, OpenType DEF ReplayBegin
<1>6. ASSUME NEW n \in Nodes, ServeExecute(c, n) \/ ServeCommit(c, n) \/ ServeRollback(c, n)
      PROVE  Rest /\ Answers /\ Outside /\ Served
  <2>1. FailureKind \in {"errors", "status"}
    BY DEF FailureKind
  <2>2. Answers
    BY <1>6, <2>1, ReplyType DEF ServeExecute, ServeCommit, ServeRollback
  <2>3. url[c].id \in Id(n)
    BY <1>6 DEF ServeExecute, ServeCommit, ServeRollback, Alive, Id
  <2>4. Served
    BY <1>6, <2>3, UpdateType DEF ServeExecute, ServeCommit, ServeRollback
  <2> QED  BY <1>3, <1>6, <2>2, <2>4 DEF ServeExecute, ServeCommit, ServeRollback
<1>7. ASSUME NEW n \in Nodes, NEW op \in Ops, NotFound(c, op, n) PROVE Rest /\ Answers /\ Outside /\ Served
  BY <1>2, <1>3, <1>7, ReplyType DEF NotFound
<1>8. ASSUME NEW op \in Ops, Refuse(c, op) PROVE Rest /\ Answers /\ Outside /\ Served
  BY <1>2, <1>8, ReplyType, FaultType DEF Refuse
<1> QED  BY <1>4, <1>5, <1>6, <1>7, <1>8 DEF Serve

LEMMA TypeStep == TypeOK /\ [Next]_vars => TypeOK'
<1> SUFFICES ASSUME TypeOK, [Next]_vars PROVE TypeOK'
  OBVIOUS
<1>1. CASE \E c \in Calls : CallBegin(c) \/ Client(c) \/ Deadline(c) \/ Serve(c)
  BY <1>1, TypeClient, TypeServe
<1>2. ASSUME NEW n \in Nodes, NEW id \in Id(n), Expire(n, id) PROVE TypeOK'
  <2>1. log' \in [Nodes -> Seq(Transactions)]
    BY <1>2, ExpireType DEF Expire
  <2> QED  BY <1>2, <2>1, FaultAssumption DEF Expire, TypeOK, clientVars
<1>3. CASE UNCHANGED vars
  BY <1>3 DEF vars, clientVars, faultVars, TypeOK
<1> QED  BY <1>1, <1>2, <1>3 DEF Next, Terminated, Id

(* Every variable of ManagedTx keeps its type. *)
THEOREM TypeCorrect == Spec => []TypeOK
<1> QED  BY TypeInit, TypeStep, PTL DEF Spec

-----------------------------------------------------------------------------
(***************************************************************************)
(* A step of one call changes nothing that the invariant says of another.  *)
(***************************************************************************)
Same(d) ==
  /\ pc'[d] = pc[d] /\ ret'[d] = ret[d] /\ expired'[d] = expired[d] /\ url'[d] = url[d]
  /\ response'[d] = response[d] /\ hit'[d] = hit[d]
  /\ \A op : Sent(d, op)' <=> Sent(d, op)

(* The transactions of d are what they were. *)
Untouched(d) ==
  \A u \in Urls : /\ Names(d, u)' <=> Names(d, u)
                  /\ Names(d, u) => At(u)' = At(u)

LEMMA UrlTypes ==
  ASSUME TypeOK, NEW c \in Calls
  PROVE  url[c] \in Urls /\ response[c] \in Responses /\ response[c].location \in Urls
BY DEF TypeOK, Responses

LEMMA Foreign ==
  ASSUME TypeOK, NEW d \in Calls, CallOK(d), Same(d), Untouched(d)
  PROVE  CallOK(d)'
<1>1. url[d] \in Urls /\ response[d].location \in Urls
  BY UrlTypes
<1>2. \A u \in Urls : \A state : In(d, u, state)' <=> In(d, u, state)
  BY DEF In, Untouched
<1>3. Excused(d)' <=> Excused(d)
  BY DEF Excused, Same
<1>4. Located(d)' <=> Located(d)
  BY DEF Located, Same
<1>5. Placed(d)'
  BY <1>1, <1>4 DEF CallOK, Placed, Same, Untouched
<1>6. OnTheWay(d)'
  BY <1>3 DEF CallOK, OnTheWay, Same, Awaited
<1>7. Shaped(d)'
  BY DEF CallOK, Shaped, Same, Untouched, Begun, Done, Undone, Whole, Flawed
<1>8. Pending(d)'
  <2>1. ASSUME NEW u \in Urls, In(d, u, "open") PROVE At(u)' = At(u)
    BY <2>1 DEF In, Untouched
  <2> QED  BY <1>1, <1>2, <1>4, <2>1 DEF CallOK, Pending, Same, Begun, Done, Undone
<1>9. Known(d)'
  BY <1>1, <1>2 DEF CallOK, Known, Same
<1>10. Cleaned(d)'
  BY <1>1, <1>2, <1>3, <1>4 DEF CallOK, Cleaned, Same
<1> QED  BY <1>5, <1>6, <1>7, <1>8, <1>9, <1>10 DEF CallOK

-----------------------------------------------------------------------------
(***************************************************************************)
(* The steps of the client.                                                *)
(***************************************************************************)
LEMMA SameLog ==
  ASSUME log' = log
  PROVE  \A c, u : /\ Names(c, u)' <=> Names(c, u)
                   /\ At(u)' = At(u)
                   /\ \A state : In(c, u, state)' <=> In(c, u, state)
BY DEF Names, At, Id, In

LEMMA FaultKeeps ==
  ASSUME TypeOK, NEW c \in Calls, NEW what, Fault(c, what) \/ UNCHANGED faultVars
  PROVE  /\ hit[c] \subseteq hit'[c]
         /\ Fault(c, what) => what \in hit'[c]
         /\ \A d \in Calls \ {c} : hit'[d] = hit[d]
BY DEF Fault, faultVars, TypeOK

LEMMA ExchangeKeeps ==
  ASSUME TypeOK, NEW c \in Calls, NEW op, Accepts(c, op) \/ Rejects(c, op) \/ DoFails(c, op)
  PROVE  /\ pc[c] = op
         /\ hit[c] \subseteq hit'[c]
         /\ \A d \in Calls \ {c} : hit'[d] = hit[d]
BY FaultKeeps DEF Accepts, Rejects, DoFails, Answered

LEMMA EnterKeeps ==
  ASSUME TypeOK, NEW c \in Calls, NEW op, Enter(c, op)
  PROVE  /\ pc'[c] = op /\ response'[c] = NoResponse /\ ret' = ret
         /\ \A o : Sent(c, o)' <=> Sent(c, o) \/ (o = op /\ ~expired[c])
         /\ \A d \in Calls \ {c} : /\ pc'[d] = pc[d] /\ response'[d] = response[d]
                                   /\ \A o : Sent(d, o)' <=> Sent(d, o)
BY DEF Enter, TypeOK, Sent

LEMMA ReturnKeeps ==
  ASSUME TypeOK, NEW c \in Calls, NEW r, Return(c, r)
  PROVE  /\ pc'[c] = "returned" /\ response'[c] = NoResponse /\ ret'[c] = r
         /\ \A o : Sent(c, o)' <=> Sent(c, o)
         /\ \A d \in Calls \ {c} : /\ pc'[d] = pc[d] /\ response'[d] = response[d]
                                   /\ ret'[d] = ret[d]
                                   /\ \A o : Sent(d, o)' <=> Sent(d, o)
BY DEF Return, TypeOK, Sent

LEMMA ClientAlone ==
  ASSUME TypeOK, NEW c \in Calls, CallBegin(c) \/ Client(c) \/ Deadline(c)
  PROVE  log' = log /\ \A d \in Calls \ {c} : Same(d)
<1>1. CASE CallBegin(c)
  BY <1>1, EnterKeeps DEF CallBegin, Same, faultVars
<1>2. CASE BeginSucceeds(c)
  BY <1>2, EnterKeeps DEF BeginSucceeds, Same, faultVars, TypeOK
<1>3. CASE BeginFails(c)
  BY <1>3, ReturnKeeps, ExchangeKeeps DEF BeginFails, Same, faultVars
<1>4. CASE ExecuteSucceeds(c) \/ ExecuteFails(c)
  BY <1>4, EnterKeeps, ExchangeKeeps DEF ExecuteSucceeds, ExecuteFails, Same
<1>5. CASE RollbackEnds(c)
  BY <1>5, ReturnKeeps, ExchangeKeeps DEF RollbackEnds, Same, faultVars
<1>6. CASE CommitSucceeds(c) \/ CommitFails(c)
  BY <1>6, ReturnKeeps, ExchangeKeeps DEF CommitSucceeds, CommitFails, Same
<1>7. CASE Deadline(c)
  BY <1>7 DEF Deadline, Same, clientVars, faultVars, Sent, TypeOK
<1> QED  BY <1>1, <1>2, <1>3, <1>4, <1>5, <1>6, <1>7 DEF Client

(* What was done in a transaction stays possible, while more goes wrong. *)
LEMMA ShapedKept ==
  ASSUME NEW c \in Calls, Shaped(c), log' = log, hit[c] \subseteq hit'[c]
  PROVE  Shaped(c)'
<1>1. \A u : (Names(c, u)' <=> Names(c, u)) /\ At(u)' = At(u)
  BY SameLog
<1> QED  BY <1>1 DEF Shaped, Begun, Done, Undone, Whole, Flawed

LEMMA NoResponseKind == NoResponse.kind = "none"
BY DEF NoResponse

LEMMA NoUrlNamesNothing == \A c \in Calls : ~Names(c, NoUrl)
BY HostAssumption DEF Names, NoUrl

LEMMA CallBeginKeeps ==
  ASSUME TypeOK, NEW c \in Calls, CallOK(c), CallBegin(c)
  PROVE  CallOK(c)'
<1>1. /\ pc[c] = "start" /\ ret' = ret /\ url' = url /\ log' = log /\ hit' = hit
      /\ expired' = expired
      /\ url[c] = NoUrl /\ response[c] = NoResponse /\ ret[c] = "none"
      /\ pc'[c] = "begin" /\ response'[c] = NoResponse
      /\ \A o : Sent(c, o)' <=> Sent(c, o) \/ (o = "begin" /\ ~expired[c])
  BY EnterKeeps DEF CallBegin, CallOK, Placed, faultVars, TypeOK
<1>2. \A u : /\ Names(c, u)' <=> Names(c, u)
             /\ At(u)' = At(u)
             /\ \A state : In(c, u, state)' <=> In(c, u, state)
  BY <1>1, SameLog
<1>3. ~Located(c) /\ ~Located(c)'
  BY <1>1 DEF Located, NoResponse
<1>4. Excused(c)' <=> Excused(c)
  BY <1>1 DEF Excused
<1>5. \A state : ~In(c, NoUrl, state)
  BY NoUrlNamesNothing DEF In
<1>6. Placed(c)'
  BY <1>1, <1>2, <1>3 DEF CallOK, Placed
<1>7. OnTheWay(c)'
  BY <1>1, <1>4 DEF CallOK, OnTheWay, Awaited
<1>8. Shaped(c)'
  BY <1>1, ShapedKept DEF CallOK
<1>9. Pending(c)'
  BY <1>1, <1>2, <1>3, <1>5 DEF Pending
<1>10. Known(c)'
  BY <1>1, <1>2, <1>5 DEF CallOK, Known
<1>11. Cleaned(c)'
  BY <1>1, <1>2, <1>3, <1>4, <1>5 DEF CallOK, Cleaned
<1> QED  BY <1>6, <1>7, <1>8, <1>9, <1>10, <1>11 DEF CallOK

(* The URL of the transaction that was begun becomes the call's. *)
LEMMA BeginSucceedsKeeps ==
  ASSUME TypeOK, NEW c \in Calls, CallOK(c), BeginSucceeds(c)
  PROVE  CallOK(c)'
<1>0. PICK u0 \in Urls : u0 = response[c].location
  BY UrlTypes
<1>1. /\ pc[c] = "begin" /\ response[c].kind = "ok" /\ Located(c)
      /\ ret' = ret /\ log' = log /\ hit' = hit /\ expired' = expired
      /\ url[c] = NoUrl /\ ret[c] = "none" /\ url'[c] = u0
      /\ pc'[c] = "execute" /\ response'[c] = NoResponse
      /\ \A o : Sent(c, o)' <=> Sent(c, o) \/ (o = "execute" /\ ~expired[c])
  BY <1>0, EnterKeeps DEF BeginSucceeds, Answered, Resolve, Located, CallOK, Placed, faultVars, TypeOK
<1>2. \A u : /\ Names(c, u)' <=> Names(c, u)
             /\ At(u)' = At(u)
             /\ \A state : In(c, u, state)' <=> In(c, u, state)
  BY <1>1, SameLog
<1>3. Names(c, u0) /\ u0 # NoUrl /\ u0 \in Urls
  BY <1>0, <1>1, NoUrlNamesNothing DEF CallOK, Placed
<1>4. ~Located(c)'
  BY <1>1 DEF Located
<1>5. Excused(c)' <=> Excused(c)
  BY <1>1 DEF Excused
<1>6. \A state : ~In(c, NoUrl, state)
  BY NoUrlNamesNothing DEF In
<1>7. \A o \in Ops : ~Sent(c, o)
  BY <1>1 DEF CallOK, OnTheWay, Awaited, NoResponse, Ops
<1>8. Placed(c)'
  BY <1>1, <1>2, <1>3, <1>4 DEF Placed
<1>9. OnTheWay(c)'
  BY <1>1, <1>3, <1>7 DEF OnTheWay, Awaited, Ops
<1>10. Shaped(c)'
  BY <1>1, ShapedKept DEF CallOK
<1>11. Pending(c)'
  <2>1. In(c, u0, "open") => At(u0)' = At(u0) /\ At(u0).ops = Begun(c)
    BY <1>0, <1>1, <1>2 DEF CallOK, Pending
  <2> QED  BY <1>1, <1>2, <1>4, <1>7, <2>1 DEF Pending, NoResponse, Ops, Begun
<1>12. Known(c)'
  BY <1>1, <1>2, <1>3, <1>6 DEF CallOK, Known
<1>13. Cleaned(c)'
  BY <1>0, <1>1, <1>2, <1>4, <1>5, <1>6 DEF CallOK, Cleaned
<1> QED  BY <1>8, <1>9, <1>10, <1>11, <1>12, <1>13 DEF CallOK

(* begin failed: if its request is still on its way, it broke or timed out. *)
LEMMA BeginFailsKeeps ==
  ASSUME TypeOK, NEW c \in Calls, CallOK(c), BeginFails(c)
  PROVE  CallOK(c)'
<1>1. /\ pc[c] = "begin" /\ pc'[c] = "returned" /\ ret[c] = "none" /\ ret'[c] = "err"
      /\ url' = url /\ log' = log /\ expired' = expired /\ hit[c] \subseteq hit'[c]
      /\ url[c] = NoUrl /\ response'[c] = NoResponse
      /\ \A o : Sent(c, o)' <=> Sent(c, o)
  BY ReturnKeeps, ExchangeKeeps DEF BeginFails, Answered, faultVars, CallOK, Placed
<1>2. \A u : /\ Names(c, u)' <=> Names(c, u)
             /\ At(u)' = At(u)
             /\ \A state : In(c, u, state)' <=> In(c, u, state)
  BY <1>1, SameLog
<1>3. Excused(c) => Excused(c)'
  BY <1>1 DEF Excused
<1>4. ~Located(c)'
  BY <1>1 DEF Located
<1>5. \A state : ~In(c, NoUrl, state)
  BY NoUrlNamesNothing DEF In
<1>6. \/ Excused(c)'
      \/ response[c] # NoResponse /\ ~Located(c)
  <2>1. CASE DoFails(c, "begin")
    BY <2>1, FaultKeeps DEF DoFails, Excused, BeginFails, Return
  <2>2. CASE Answered(c, "begin", "status") \/ Answered(c, "begin", "noLocation")
    BY <2>2 DEF Answered, NoResponse, Located
  <2> QED  BY <2>1, <2>2 DEF BeginFails
<1>7. Placed(c)'
  BY <1>1, <1>2, <1>4 DEF Placed
<1>8. OnTheWay(c)'
  BY <1>1, <1>6 DEF CallOK, OnTheWay, Awaited
<1>9. Shaped(c)'
  BY <1>1, ShapedKept DEF CallOK
<1>10. Pending(c)'
  BY <1>1, <1>2, <1>4, <1>5 DEF Pending
<1>11. Known(c)'
  BY <1>1, <1>2, <1>5 DEF CallOK, Known
<1>12. Cleaned(c)'
  BY <1>1, <1>2, <1>3, <1>4, <1>5, <1>6 DEF CallOK, Cleaned
<1> QED  BY <1>7, <1>8, <1>9, <1>10, <1>11, <1>12 DEF CallOK

(* An answer that execute or commit accepts shows no error, unless it could *)
(* not be read.                                                             *)
LEMMA AcceptsMeans ==
  ASSUME TypeOK, NEW c \in Calls, NEW op, Accepts(c, op)
  PROVE  /\ pc[c] = op /\ response[c] # NoResponse
         /\ hit[c] \subseteq hit'[c]
         /\ \/ response[c].kind = "ok"
            \/ response[c].kind = "errors" /\ "unreadable" \in hit'[c]
         /\ response[c].kind = "ok" \/ "unreadable" \in hit'[c]
BY FaultKeeps DEF Accepts, Answered, NoResponse

LEMMA ExecuteSucceedsKeeps ==
  ASSUME TypeOK, NEW c \in Calls, CallOK(c), ExecuteSucceeds(c)
  PROVE  CallOK(c)'
<1>1. /\ pc[c] = "execute" /\ pc'[c] = "commit" /\ ret' = ret /\ ret[c] = "none"
      /\ url' = url /\ log' = log /\ expired' = expired /\ hit[c] \subseteq hit'[c]
      /\ url[c] # NoUrl /\ response'[c] = NoResponse /\ response[c] # NoResponse
      /\ \A o : Sent(c, o)' <=> Sent(c, o) \/ (o = "commit" /\ ~expired[c])
      /\ \/ response[c].kind = "ok"
         \/ response[c].kind = "errors" /\ "unreadable" \in hit'[c]
  BY EnterKeeps, AcceptsMeans DEF ExecuteSucceeds, CallOK, Placed
<1>2. \A u : /\ Names(c, u)' <=> Names(c, u)
             /\ At(u)' = At(u)
             /\ \A state : In(c, u, state)' <=> In(c, u, state)
  BY <1>1, SameLog
<1>3. Excused(c) => Excused(c)'
  BY <1>1 DEF Excused
<1>4. ~Located(c) /\ ~Located(c)'
  BY <1>1 DEF Located
<1>5. ~Sent(c, "execute") /\ ~Sent(c, "commit") /\ ~Sent(c, "begin")
  BY <1>1 DEF CallOK, OnTheWay, Awaited
<1>6. Placed(c)'
  BY <1>1, <1>2, <1>4 DEF CallOK, Placed
<1>7. OnTheWay(c)'
  BY <1>1, <1>5 DEF CallOK, OnTheWay, Awaited
<1>8. Shaped(c)'
  BY <1>1, ShapedKept DEF CallOK
<1>9. Pending(c)'
  BY <1>1, <1>2, <1>4, <1>5 DEF CallOK, Pending, Done, Undone
<1>10. Known(c)'
  BY <1>1, <1>2, NoResponseKind DEF CallOK, Known
<1>11. Cleaned(c)'
  BY <1>1, <1>2, <1>3, <1>4 DEF CallOK, Cleaned, Excused
<1> QED  BY <1>6, <1>7, <1>8, <1>9, <1>10, <1>11 DEF CallOK

(* execute failed: its request may still be on its way, and a rollback is now. *)
LEMMA ExecuteFailsKeeps ==
  ASSUME TypeOK, NEW c \in Calls, CallOK(c), ExecuteFails(c)
  PROVE  CallOK(c)'
<1>1. /\ pc[c] = "execute" /\ pc'[c] = "rollback" /\ ret' = ret /\ ret[c] = "none"
      /\ url' = url /\ log' = log /\ expired' = expired /\ hit[c] \subseteq hit'[c]
      /\ url[c] # NoUrl /\ response'[c] = NoResponse
      /\ \A o : Sent(c, o)' <=> Sent(c, o) \/ (o = "rollback" /\ ~expired[c])
  BY EnterKeeps, ExchangeKeeps DEF ExecuteFails, CallOK, Placed
<1>2. \A u : /\ Names(c, u)' <=> Names(c, u)
             /\ At(u)' = At(u)
             /\ \A state : In(c, u, state)' <=> In(c, u, state)
  BY <1>1, SameLog
<1>3. Excused(c) => Excused(c)'
  BY <1>1 DEF Excused
<1>4. ~Located(c) /\ ~Located(c)'
  BY <1>1 DEF Located
<1>5. ~Sent(c, "commit") /\ ~Sent(c, "begin")
  BY <1>1 DEF CallOK, OnTheWay, Awaited
<1>6. Placed(c)'
  BY <1>1, <1>2, <1>4 DEF CallOK, Placed
<1>7. OnTheWay(c)'
  BY <1>1, <1>5 DEF CallOK, OnTheWay, Awaited
<1>8. Shaped(c)'
  BY <1>1, ShapedKept DEF CallOK
<1>9. Pending(c)'
  BY <1>1, <1>2, <1>4, <1>5 DEF CallOK, Pending, Begun
<1>10. Known(c)'
  BY <1>1, <1>2 DEF CallOK, Known
<1>11. Cleaned(c)'
  BY <1>1, <1>2, <1>3, <1>4 DEF CallOK, Cleaned, Excused
<1> QED  BY <1>6, <1>7, <1>8, <1>9, <1>10, <1>11 DEF CallOK

(* The call is over, whatever became of its rollback. *)
LEMMA RollbackEndsKeeps ==
  ASSUME TypeOK, NEW c \in Calls, CallOK(c), RollbackEnds(c)
  PROVE  CallOK(c)'
<1>1. /\ pc[c] = "rollback" /\ pc'[c] = "returned" /\ ret[c] = "none" /\ ret'[c] = "err"
      /\ url' = url /\ log' = log /\ expired' = expired /\ hit[c] \subseteq hit'[c]
      /\ url[c] # NoUrl /\ response'[c] = NoResponse
      /\ \A o : Sent(c, o)' <=> Sent(c, o)
  BY ReturnKeeps, ExchangeKeeps DEF RollbackEnds, faultVars, CallOK, Placed
<1>2. \A u : /\ Names(c, u)' <=> Names(c, u)
             /\ At(u)' = At(u)
             /\ \A state : In(c, u, state)' <=> In(c, u, state)
  BY <1>1, SameLog
<1>3. Excused(c) => Excused(c)'
  BY <1>1 DEF Excused
<1>4. ~Located(c) /\ ~Located(c)'
  BY <1>1 DEF Located
<1>5. Excused(c)' \/ response[c] # NoResponse
  BY <1>1, FaultKeeps DEF RollbackEnds, DoFails, Excused
<1>6. ~Sent(c, "commit") /\ ~Sent(c, "begin")
  BY <1>1 DEF CallOK, OnTheWay, Awaited
<1>7. Placed(c)'
  BY <1>1, <1>2, <1>4 DEF CallOK, Placed
<1>8. OnTheWay(c)'
  BY <1>1, <1>6 DEF CallOK, OnTheWay
<1>9. Shaped(c)'
  BY <1>1, ShapedKept DEF CallOK
<1>10. Pending(c)'
  BY <1>1, <1>2, <1>4, <1>6 DEF CallOK, Pending, Begun
<1>11. Known(c)'
  BY <1>1, <1>2 DEF CallOK, Known
<1>12. Cleaned(c)'
  BY <1>1, <1>2, <1>3, <1>4, <1>5 DEF CallOK, Cleaned
<1> QED  BY <1>7, <1>8, <1>9, <1>10, <1>11, <1>12 DEF CallOK

(* nil is returned on an answer. *)
LEMMA CommitSucceedsKeeps ==
  ASSUME TypeOK, NEW c \in Calls, CallOK(c), CommitSucceeds(c)
  PROVE  CallOK(c)'
<1>1. /\ pc[c] = "commit" /\ pc'[c] = "returned" /\ ret[c] = "none" /\ ret'[c] = "nil"
      /\ url' = url /\ log' = log /\ expired' = expired /\ hit[c] \subseteq hit'[c]
      /\ url[c] # NoUrl /\ response'[c] = NoResponse /\ response[c] # NoResponse
      /\ \A o : Sent(c, o)' <=> Sent(c, o)
      /\ response[c].kind = "ok" \/ "unreadable" \in hit'[c]
  BY ReturnKeeps, AcceptsMeans DEF CommitSucceeds, CallOK, Placed
<1>2. \A u : /\ Names(c, u)' <=> Names(c, u)
             /\ At(u)' = At(u)
             /\ \A state : In(c, u, state)' <=> In(c, u, state)
  BY <1>1, SameLog
<1>3. Excused(c) => Excused(c)'
  BY <1>1 DEF Excused
<1>4. ~Located(c) /\ ~Located(c)'
  BY <1>1 DEF Located
<1>5. \A o \in Ops : ~Sent(c, o)
  BY <1>1 DEF CallOK, OnTheWay, Awaited, Ops
<1>6. Placed(c)'
  BY <1>1, <1>2, <1>4 DEF CallOK, Placed
<1>7. OnTheWay(c)'
  BY <1>1, <1>5 DEF OnTheWay, Ops
<1>8. Shaped(c)'
  BY <1>1, ShapedKept DEF CallOK
<1>9. Pending(c)'
  BY <1>1, <1>4, <1>5 DEF Pending, Ops
<1>10. Known(c)'
  BY <1>1, <1>2, <1>5 DEF CallOK, Known, Ops
<1>11. Cleaned(c)'
  BY <1>1, <1>2, <1>3, <1>4 DEF CallOK, Cleaned
<1> QED  BY <1>6, <1>7, <1>8, <1>9, <1>10, <1>11 DEF CallOK

(* An error is returned on an answer that says so, or the exchange broke. *)
LEMMA CommitFailsKeeps ==
  ASSUME TypeOK, NEW c \in Calls, CallOK(c), CommitFails(c)
  PROVE  CallOK(c)'
<1>1. /\ pc[c] = "commit" /\ pc'[c] = "returned" /\ ret[c] = "none" /\ ret'[c] = "err"
      /\ url' = url /\ log' = log /\ expired' = expired /\ hit[c] \subseteq hit'[c]
      /\ url[c] # NoUrl /\ response'[c] = NoResponse
      /\ \A o : Sent(c, o)' <=> Sent(c, o)
  BY ReturnKeeps, ExchangeKeeps DEF CommitFails, CallOK, Placed
<1>2. \A u : /\ Names(c, u)' <=> Names(c, u)
             /\ At(u)' = At(u)
             /\ \A state : In(c, u, state)' <=> In(c, u, state)
  BY <1>1, SameLog
<1>3. Excused(c) => Excused(c)'
  BY <1>1 DEF Excused
<1>4. ~Located(c) /\ ~Located(c)'
  BY <1>1 DEF Located
<1>5. \/ expired'[c] \/ "commit" \in hit'[c]
      \/ response[c] # NoResponse /\ response[c].kind # "ok"
  BY <1>1, FaultKeeps DEF CommitFails, Rejects, DoFails, Answered, NoResponse
<1>6. ~Sent(c, "execute") /\ ~Sent(c, "begin") /\ ~Sent(c, "rollback")
  BY <1>1 DEF CallOK, OnTheWay, Awaited
<1>7. Placed(c)'
  BY <1>1, <1>2, <1>4 DEF CallOK, Placed
<1>8. OnTheWay(c)'
  BY <1>1, <1>5, <1>6 DEF CallOK, OnTheWay, Awaited
<1>9. Shaped(c)'
  BY <1>1, ShapedKept DEF CallOK
<1>10. Pending(c)'
  BY <1>1, <1>2, <1>4, <1>6 DEF CallOK, Pending, Done, Undone
<1>11. Known(c)'
  BY <1>1, <1>2, <1>5 DEF CallOK, Known
<1>12. Cleaned(c)'
  BY <1>1, <1>2, <1>3, <1>4, <1>5 DEF CallOK, Cleaned, Excused
<1> QED  BY <1>7, <1>8, <1>9, <1>10, <1>11, <1>12 DEF CallOK

LEMMA DeadlineKeeps ==
  ASSUME TypeOK, NEW c \in Calls, CallOK(c), Deadline(c)
  PROVE  CallOK(c)'
<1>1. /\ pc' = pc /\ ret' = ret /\ url' = url /\ log' = log /\ hit' = hit
      /\ response' = response /\ expired'[c] /\ ret[c] = "none"
      /\ \A o : Sent(c, o)' <=> Sent(c, o)
  BY DEF Deadline, CallOK, Placed, clientVars, faultVars, Sent, TypeOK, Ops
<1>2. \A u : /\ Names(c, u)' <=> Names(c, u)
             /\ At(u)' = At(u)
             /\ \A state : In(c, u, state)' <=> In(c, u, state)
  BY <1>1, SameLog
<1>3. Excused(c)' /\ (Located(c)' <=> Located(c))
  BY <1>1 DEF Excused, Located
<1>4. Placed(c)'
  BY <1>1, <1>2, <1>3 DEF CallOK, Placed
<1>5. OnTheWay(c)'
  BY <1>1, <1>3 DEF CallOK, OnTheWay, Awaited
<1>6. Shaped(c)'
  BY <1>1, ShapedKept DEF CallOK
<1>7. Pending(c)'
  BY <1>1, <1>2, <1>3 DEF CallOK, Pending, Begun, Done, Undone
<1>8. Known(c)'
  BY <1>1, <1>2 DEF CallOK, Known
<1>9. Cleaned(c)'
  BY <1>3 DEF Cleaned
<1> QED  BY <1>4, <1>5, <1>6, <1>7, <1>8, <1>9 DEF CallOK

(* A step of the client keeps what holds of every call. *)
LEMMA ClientKeeps ==
  ASSUME Invariant, NEW c \in Calls, CallBegin(c) \/ Client(c) \/ Deadline(c)
  PROVE  Owned' /\ \A d \in Calls : CallOK(d)'
<1>1. TypeOK /\ Owned /\ \A d \in Calls : CallOK(d)
  BY DEF Invariant
<1>2. log' = log /\ \A d \in Calls \ {c} : Same(d)
  BY <1>1, ClientAlone
<1>3. \A d \in Calls : Untouched(d)
  BY <1>2, SameLog DEF Untouched
<1>4. \A d \in Calls \ {c} : CallOK(d)'
  BY <1>1, <1>2, <1>3, Foreign
<1>5. CallOK(c)'
  BY <1>1, CallBeginKeeps, BeginSucceedsKeeps, BeginFailsKeeps, ExecuteSucceedsKeeps, ExecuteFailsKeeps,
     RollbackEndsKeeps, CommitSucceedsKeeps, CommitFailsKeeps, DeadlineKeeps DEF Client
<1>6. Owned'
  BY <1>1, <1>2 DEF Owned, Id
<1> QED  BY <1>4, <1>5, <1>6

-----------------------------------------------------------------------------
(***************************************************************************)
(* What the steps of the cluster do to the transactions and the answers.   *)
(***************************************************************************)
LEMMA AppendToOne == ASSUME NEW S, NEW a \in S, NEW b \in S PROVE Append(<<a>>, b) = <<a, b>>
<1>1. /\ Append(<<a>>, b) \in Seq(S) /\ Len(Append(<<a>>, b)) = 2
      /\ Append(<<a>>, b)[1] = a /\ Append(<<a>>, b)[2] = b
  OBVIOUS
<1>2. <<a, b>> \in Seq(S) /\ Len(<<a, b>>) = 2 /\ <<a, b>>[1] = a /\ <<a, b>>[2] = b
  OBVIOUS
<1>3. \A i \in 1..2 : i = 1 \/ i = 2
  OBVIOUS
<1>4. \A i \in 1..2 : Append(<<a>>, b)[i] = <<a, b>>[i]
  BY <1>1, <1>2, <1>3
<1> QED  BY <1>1, <1>2, <1>4, SeqEqual

LEMMA AppendToTwo ==
  ASSUME NEW S, NEW a \in S, NEW b \in S, NEW d \in S
  PROVE  Append(<<a, b>>, d) = <<a, b, d>>
<1>1. /\ Append(<<a, b>>, d) \in Seq(S) /\ Len(Append(<<a, b>>, d)) = 3
      /\ Append(<<a, b>>, d)[1] = a /\ Append(<<a, b>>, d)[2] = b /\ Append(<<a, b>>, d)[3] = d
  OBVIOUS
<1>2. /\ <<a, b, d>> \in Seq(S) /\ Len(<<a, b, d>>) = 3
      /\ <<a, b, d>>[1] = a /\ <<a, b, d>>[2] = b /\ <<a, b, d>>[3] = d
  OBVIOUS
<1>3. \A i \in 1..3 : i = 1 \/ i = 2 \/ i = 3
  OBVIOUS
<1>4. \A i \in 1..3 : Append(<<a, b>>, d)[i] = <<a, b, d>>[i]
  BY <1>1, <1>2, <1>3
<1> QED  BY <1>1, <1>2, <1>4, SeqEqual

LEMMA OperationsAdd ==
  ASSUME NEW c
  PROVE  /\ Append(Begun(c), <<c, "execute">>) = Done(c)
         /\ Append(Begun(c), <<c, "failed">>) = Undone(c)
         /\ Append(Done(c), <<c, "commit">>) = Whole(c)
         /\ Append(Undone(c), <<c, "commit">>) = Flawed(c)
         /\ Begun(c) # Done(c) /\ Begun(c) # Undone(c) /\ Done(c) # Undone(c)
<1> DEFINE S == {c} \X {"begin", "execute", "failed", "commit"}
<1>0. <<c, "begin">> \in S /\ <<c, "execute">> \in S /\ <<c, "failed">> \in S /\ <<c, "commit">> \in S
  OBVIOUS
<1> HIDE DEF S
<1>1. Append(Begun(c), <<c, "execute">>) = Done(c)
  BY <1>0, AppendToOne DEF Begun, Done
<1>2. Append(Begun(c), <<c, "failed">>) = Undone(c)
  BY <1>0, AppendToOne DEF Begun, Undone
<1>3. Append(Done(c), <<c, "commit">>) = Whole(c)
  BY <1>0, AppendToTwo DEF Done, Whole
<1>4. Append(Undone(c), <<c, "commit">>) = Flawed(c)
  BY <1>0, AppendToTwo DEF Undone, Flawed
<1>5. Begun(c) # Done(c) /\ Begun(c) # Undone(c)
  <2>1. Len(Begun(c)) = 1 /\ Len(Done(c)) = 2 /\ Len(Undone(c)) = 2
    BY DEF Begun, Done, Undone
  <2> QED  BY <2>1
<1>6. Done(c) # Undone(c)
  <2>1. Done(c)[2] = <<c, "execute">> /\ Undone(c)[2] = <<c, "failed">>
    BY DEF Done, Undone
  <2> QED  BY <2>1
<1> QED  BY <1>1, <1>2, <1>3, <1>4, <1>5, <1>6

(* A transaction that is begun is a new one of its call, and nothing else changes. *)
LEMMA OpenAdds ==
  ASSUME TypeOK, Owned, NEW c \in Calls, NEW n \in Nodes, Open(c, n),
         NEW u0, u0 = [host |-> n, id |-> Len(log[n]) + 1]
  PROVE  /\ u0 \in Urls /\ u0 # NoUrl
         /\ At(u0)' = [state |-> "open", ops |-> Begun(c)]
         /\ \A u \in Urls : \A d : Names(d, u)' <=> Names(d, u) \/ (d = c /\ u = u0)
         /\ \A u \in Urls : \A d : Names(d, u) => u # u0 /\ At(u)' = At(u)
         /\ Owned'
<1>1. log \in [Nodes -> Seq(Transactions)] /\ log[n] \in Seq(Transactions) /\ Len(log[n]) \in Nat
  BY DEF TypeOK
<1>2. u0 \in Urls /\ u0 # NoUrl /\ u0.host = n /\ u0.id = Len(log[n]) + 1
  BY <1>1, HostAssumption DEF Urls, Hosts, NoUrl
<1> DEFINE new == [state |-> "open", ops |-> Begun(c)]
<1>3. Owner(new) = c /\ new.ops # <<>>
  BY DEF Owner, Begun
<1>4. /\ log'[n] = Append(log[n], new)
      /\ \A m \in Nodes : m # n => log'[m] = log[m]
  BY <1>1 DEF Open, Begun
<1>5. /\ Len(log'[n]) = Len(log[n]) + 1
      /\ log'[n][Len(log[n]) + 1] = new
      /\ \A i \in 1..Len(log[n]) : log'[n][i] = log[n][i]
  BY <1>1, <1>4
<1>6. At(u0)' = new
  BY <1>2, <1>5 DEF At
<1>7. ASSUME NEW u \in Urls, NEW d, Names(d, u)
      PROVE  Names(d, u)' /\ u # u0 /\ At(u)' = At(u)
  BY <1>1, <1>2, <1>4, <1>5, <1>7 DEF Names, At, Id
<1>8. ASSUME NEW u \in Urls, NEW d, Names(d, u)', u # u0
      PROVE  Names(d, u)
  <2>1. u.host \in Nodes /\ u.id \in 1..Len(log'[u.host]) /\ Owner(log'[u.host][u.id]) = d
    BY <1>8 DEF Names, At, Id
  <2>2. u.host = n => u.id # Len(log[n]) + 1
    BY <1>2, <1>8 DEF Urls
  <2> QED  BY <1>1, <1>4, <1>5, <2>1, <2>2 DEF Names, At, Id
<1>9. Names(c, u0)' /\ \A d : Names(d, u0)' => d = c
  BY <1>1, <1>2, <1>3, <1>5, <1>6 DEF Names, At, Id
<1>10. Owned'
  <2>1. ASSUME NEW m \in Nodes, NEW i \in Id(m)'
        PROVE  (m = n /\ log'[m][i] = new) \/ (i \in Id(m) /\ log'[m][i] = log[m][i])
    BY <1>1, <1>4, <1>5, <2>1 DEF Id
  <2> QED  BY <1>3, <2>1 DEF Owned
<1> QED  BY <1>2, <1>6, <1>7, <1>8, <1>9, <1>10

(* A transaction that changes keeps its beginning, and no other changes. *)
LEMMA ChangeKeeps ==
  ASSUME TypeOK, Owned, NEW u0 \in Urls, u0.host \in Nodes, u0.id \in Id(u0.host), NEW t,
         t.ops # <<>>, t.ops[1] = At(u0).ops[1],
         log' = [log EXCEPT ![u0.host] = [log[u0.host] EXCEPT ![u0.id] = t]]
  PROVE  /\ At(u0)' = t
         /\ \A u \in Urls : \A d : Names(d, u)' <=> Names(d, u)
         /\ \A u \in Urls : \A d : Names(d, u) /\ u # u0 => At(u)' = At(u)
         /\ Owned'
<1> DEFINE n == u0.host
<1>1. log \in [Nodes -> Seq(Transactions)] /\ log[n] \in Seq(Transactions) /\ Len(log[n]) \in Nat
  BY DEF TypeOK
<1>2. /\ log'[n] = [log[n] EXCEPT ![u0.id] = t]
      /\ \A m \in Nodes : m # n => log'[m] = log[m]
  BY <1>1
<1>3. /\ Len(log'[n]) = Len(log[n])
      /\ log'[n][u0.id] = t
      /\ \A i \in 1..Len(log[n]) : i # u0.id => log'[n][i] = log[n][i]
  BY <1>1, <1>2 DEF Id
<1>4. At(u0)' = t
  BY <1>3 DEF At
<1>5. Owner(t) = Owner(At(u0))
  BY DEF Owner
<1>6. \A m \in Nodes : Id(m)' = Id(m)
  BY <1>2, <1>3 DEF Id
<1>7. \A m \in Nodes : \A i \in Id(m) :
        /\ Owner(log'[m][i]) = Owner(log[m][i])
        /\ log'[m][i] = log[m][i] \/ (m = n /\ i = u0.id)
  BY <1>2, <1>3, <1>5 DEF Id, At
<1>8. \A u \in Urls : \A d : Names(d, u)' <=> Names(d, u)
  BY <1>6, <1>7 DEF Names, At
<1>9. \A u \in Urls : \A d : Names(d, u) /\ u # u0 => At(u)' = At(u)
  <2>1. \A u \in Urls : u.host = n /\ u.id = u0.id => u = u0
    BY DEF Urls
  <2> QED  BY <1>7, <2>1 DEF Names, At
<1>10. Owned'
  <2>1. \A m \in Nodes : \A i \in Id(m) : log'[m][i].ops # <<>>
    BY <1>3, <1>7 DEF Owned
  <2> QED  BY <1>6, <1>7, <2>1 DEF Owned
<1> QED  BY <1>4, <1>8, <1>9, <1>10

(* A served request adds its operation to the transaction. *)
LEMMA UpdateKeeps ==
  ASSUME TypeOK, Owned, NEW u0 \in Urls, u0.host \in Nodes, u0.id \in Id(u0.host),
         NEW state, NEW entry, Update(u0.host, u0.id, state, entry)
  PROVE  /\ At(u0)' = [state |-> state, ops |-> Append(At(u0).ops, entry)]
         /\ \A u \in Urls : \A d : Names(d, u)' <=> Names(d, u)
         /\ \A u \in Urls : \A d : Names(d, u) /\ u # u0 => At(u)' = At(u)
         /\ Owned'
<1> DEFINE t == [state |-> state, ops |-> Append(At(u0).ops, entry)]
<1>1. At(u0).ops \in Seq(Entries) /\ At(u0).ops # <<>>
  <2>1. At(u0) \in Transactions
    BY DEF TypeOK, At, Id
  <2>2. At(u0).ops # <<>>
    BY DEF Owned, At
  <2> QED  BY <2>1, <2>2 DEF Transactions
<1>2. t.ops # <<>> /\ t.ops[1] = At(u0).ops[1]
  BY <1>1
<1>3. log' = [log EXCEPT ![u0.host] = [log[u0.host] EXCEPT ![u0.id] = t]]
  BY DEF Update, At
<1> HIDE DEF t
<1>4. At(u0)' = t
  BY <1>2, <1>3, ChangeKeeps
<1> QED  BY <1>2, <1>3, <1>4, ChangeKeeps DEF t

LEMMA ReplyKeeps ==
  ASSUME TypeOK, NEW c \in Calls, NEW op, NEW kind, NEW location, Reply(c, op, kind, location)
  PROVE  /\ pc[c] = op => response'[c] = [kind |-> kind, location |-> location]
         /\ pc[c] # op => response'[c] = response[c]
         /\ \A o : Sent(c, o)' <=> Sent(c, o) /\ o # op
         /\ \A d \in Calls \ {c} : /\ response'[d] = response[d]
                                   /\ \A o : Sent(d, o)' <=> Sent(d, o)
BY DEF Reply, TypeOK, Sent

(* A request after begin goes to the node that opened the call's transaction. *)
LEMMA ReachesOwn ==
  ASSUME Invariant, NEW c \in Calls, NEW op \in Ops \ {"begin"}, NEW n \in Nodes, Reaches(c, op, n)
  PROVE  Sent(c, op) /\ url[c].host = n /\ Names(c, url[c])
<1>1. Sent(c, op) /\ CallOK(c)
  BY DEF Invariant, Reaches, Sent
<1>2. url[c] # NoUrl
  BY <1>1 DEF CallOK, OnTheWay, Ops
<1>3. Names(c, url[c])
  BY <1>1, <1>2 DEF CallOK, Placed
<1> QED  BY <1>1, <1>3, HostAssumption DEF Names, Reaches

-----------------------------------------------------------------------------
(***************************************************************************)
(* The steps of the cluster.                                               *)
(***************************************************************************)
LEMMA ServeBeginKeeps ==
  ASSUME Invariant, NEW c \in Calls, NEW n \in Nodes, ServeBegin(c, n)
  PROVE  Owned' /\ \A d \in Calls : CallOK(d)'
<1>1. TypeOK /\ Owned /\ (\A d \in Calls : CallOK(d)) /\ Sent(c, "begin") /\ Open(c, n)
  BY DEF Invariant, ServeBegin, Reaches, Sent
<1>2. PICK u0 : u0 = [host |-> n, id |-> Len(log[n]) + 1]
  OBVIOUS
<1>3. /\ u0 \in Urls /\ u0 # NoUrl
      /\ At(u0)' = [state |-> "open", ops |-> Begun(c)]
      /\ \A u \in Urls : \A d : Names(d, u)' <=> Names(d, u) \/ (d = c /\ u = u0)
      /\ \A u \in Urls : \A d : Names(d, u) => u # u0 /\ At(u)' = At(u)
      /\ Owned'
  BY <1>1, <1>2, OpenAdds
<1>4. /\ pc' = pc /\ ret' = ret /\ url' = url /\ expired' = expired
      /\ hit[c] \subseteq hit'[c] /\ \A d \in Calls \ {c} : hit'[d] = hit[d]
  BY <1>1, FaultKeeps DEF ServeBegin, clientVars
<1>5. /\ \A o : Sent(c, o)' <=> Sent(c, o) /\ o # "begin"
      /\ pc[c] # "begin" => response'[c] = response[c]
      /\ pc[c] = "begin" => \/ response'[c] = [kind |-> "ok", location |-> u0]
                            \/ response'[c] = [kind |-> "noLocation", location |-> NoUrl] /\ Excused(c)'
      /\ \A d \in Calls \ {c} : /\ response'[d] = response[d]
                                /\ \A o : Sent(d, o)' <=> Sent(d, o)
  <2>1. CASE Reply(c, "begin", "ok", [host |-> n, id |-> Len(log[n]) + 1])
    BY <1>1, <1>2, <2>1, ReplyKeeps
  <2>2. CASE Reply(c, "begin", "noLocation", NoUrl) /\ Fault(c, "location")
    <3>1. Excused(c)'
      BY <1>1, <2>2, FaultKeeps DEF Excused
    <3> QED  BY <1>1, <2>2, <3>1, ReplyKeeps
  <2> QED  BY <2>1, <2>2 DEF ServeBegin
<1>6. \A d \in Calls \ {c} : CallOK(d)'
  <2>1. \A d \in Calls \ {c} : Untouched(d)
    BY <1>3 DEF Untouched
  <2>2. \A d \in Calls \ {c} : Same(d)
    BY <1>4, <1>5 DEF Same
  <2> QED  BY <1>1, <2>1, <2>2, Foreign
<1>7. /\ url[c] = NoUrl /\ ~Located(c) /\ pc[c] \in {"begin", "returned"}
      /\ pc[c] = "begin" => response[c] = NoResponse
      /\ pc[c] = "returned" => Excused(c)
  BY <1>1 DEF CallOK, OnTheWay, Placed, Awaited, Located, NoResponse
<1>8. \A state : ~In(c, NoUrl, state) /\ ~In(c, NoUrl, state)'
  BY <1>3, NoUrlNamesNothing, NoUrlType DEF In
<1>9. \A u \in Urls : \A state : In(c, u, state)' <=> In(c, u, state) \/ (u = u0 /\ state = "open")
  BY <1>3 DEF In
<1>10. Excused(c) => Excused(c)'
  BY <1>4 DEF Excused
<1>11. Located(c)' => response'[c].location = u0
  BY <1>4, <1>5, <1>7 DEF Located
<1>12. ~Excused(c)' => Located(c)'
  BY <1>4, <1>5, <1>7, <1>10 DEF Located
<1>13. Placed(c)'
  BY <1>1, <1>3, <1>4, <1>5, <1>7, <1>11 DEF CallOK, Placed
<1>14. OnTheWay(c)'
  BY <1>1, <1>4, <1>5, <1>7 DEF CallOK, OnTheWay, Awaited
<1>15. Shaped(c)'
  <2>1. Len(Begun(c)) = 1 /\ Begun(c)[1][1] = c
    BY DEF Begun
  <2>2. \A u \in Urls : Names(c, u) => At(u)' = At(u)
    BY <1>3
  <2> QED  BY <1>1, <1>3, <1>4, <2>1, <2>2 DEF CallOK, Shaped, Begun, Done, Undone, Whole, Flawed
<1>16. Pending(c)'
  BY <1>3, <1>4, <1>7, <1>8, <1>11 DEF Pending, Begun
<1>17. Known(c)'
  BY <1>1, <1>4, <1>5, <1>7, <1>8, <1>9 DEF CallOK, Known
<1>18. Cleaned(c)'
  BY <1>1, <1>4, <1>7, <1>8, <1>9, <1>10, <1>11, <1>12 DEF CallOK, Cleaned
<1> QED  BY <1>3, <1>6, <1>13, <1>14, <1>15, <1>16, <1>17, <1>18 DEF CallOK

(* The transaction of a replayed begin has no call that knows of it. *)
LEMMA ReplayBeginKeeps ==
  ASSUME Invariant, NEW c \in Calls, NEW n \in Nodes, ReplayBegin(c, n)
  PROVE  Owned' /\ \A d \in Calls : CallOK(d)'
<1>1. TypeOK /\ Owned /\ (\A d \in Calls : CallOK(d)) /\ Sent(c, "begin") /\ Open(c, n)
  BY DEF Invariant, ReplayBegin, Reaches, Sent
<1>2. PICK u0 : u0 = [host |-> n, id |-> Len(log[n]) + 1]
  OBVIOUS
<1>3. /\ u0 \in Urls /\ u0 # NoUrl
      /\ At(u0)' = [state |-> "open", ops |-> Begun(c)]
      /\ \A u \in Urls : \A d : Names(d, u)' <=> Names(d, u) \/ (d = c /\ u = u0)
      /\ \A u \in Urls : \A d : Names(d, u) => u # u0 /\ At(u)' = At(u)
      /\ Owned'
  BY <1>1, <1>2, OpenAdds
<1>4. /\ pc' = pc /\ ret' = ret /\ url' = url /\ expired' = expired /\ response' = response
      /\ \A d, o : Sent(d, o)' <=> Sent(d, o)
      /\ hit[c] \subseteq hit'[c] /\ "replay" \in hit'[c]
      /\ \A d \in Calls \ {c} : hit'[d] = hit[d]
  BY <1>1, FaultKeeps DEF ReplayBegin, clientVars, Sent
<1>5. \A d \in Calls \ {c} : CallOK(d)'
  <2>1. \A d \in Calls \ {c} : Untouched(d)
    BY <1>3 DEF Untouched
  <2>2. \A d \in Calls \ {c} : Same(d)
    BY <1>4 DEF Same
  <2> QED  BY <1>1, <2>1, <2>2, Foreign
<1>6. url[c] = NoUrl /\ ~Located(c) /\ ~Located(c)' /\ Excused(c)'
  BY <1>1, <1>4 DEF CallOK, OnTheWay, Placed, Awaited, Located, NoResponse, Excused
<1>7. \A state : ~In(c, NoUrl, state) /\ ~In(c, NoUrl, state)'
  BY <1>3, NoUrlNamesNothing, NoUrlType DEF In
<1>8. \A u \in Urls : \A state : In(c, u, state)' <=> In(c, u, state) \/ (u = u0 /\ state = "open")
  BY <1>3 DEF In
<1>9. Placed(c)'
  BY <1>1, <1>3, <1>4, <1>6 DEF CallOK, Placed
<1>10. OnTheWay(c)'
  BY <1>1, <1>4, <1>6 DEF CallOK, OnTheWay, Awaited
<1>11. Shaped(c)'
  <2>1. Len(Begun(c)) = 1 /\ Begun(c)[1][1] = c
    BY DEF Begun
  <2>2. \A u \in Urls : Names(c, u) => At(u)' = At(u)
    BY <1>3
  <2> QED  BY <1>1, <1>3, <1>4, <2>1, <2>2 DEF CallOK, Shaped, Begun, Done, Undone, Whole, Flawed
<1>12. Pending(c)'
  BY <1>4, <1>6, <1>7 DEF Pending
<1>13. Known(c)'
  BY <1>1, <1>4, <1>6, <1>7, <1>8 DEF CallOK, Known
<1>14. Cleaned(c)'
  BY <1>6 DEF Cleaned
<1> QED  BY <1>3, <1>5, <1>9, <1>10, <1>11, <1>12, <1>13, <1>14 DEF CallOK

(* An answer of the cluster leaves the call where it is, and is the only one. *)
LEMMA AnswerKeeps ==
  ASSUME Invariant, NEW c \in Calls, NEW op \in Ops, Sent(c, op),
         NEW kind \in {"ok", "status", "errors"}, op = "begin" => kind = "status",
         Reply(c, op, kind, NoUrl),
         UNCHANGED <<clientVars, expired>>, hit[c] \subseteq hit'[c],
         \A u \in Urls : Names(c, u)' <=> Names(c, u)
  PROVE  Placed(c)' /\ OnTheWay(c)'
<1>1. TypeOK /\ CallOK(c)
  BY DEF Invariant
<1>2. /\ pc' = pc /\ ret' = ret /\ url' = url /\ expired' = expired
      /\ pc[c] = op => response'[c] = [kind |-> kind, location |-> NoUrl]
      /\ pc[c] # op => response'[c] = response[c]
      /\ \A o : Sent(c, o)' <=> Sent(c, o) /\ o # op
  BY <1>1, ReplyKeeps DEF clientVars
<1>3. url[c] \in Urls /\ response[c].location \in Urls
  BY <1>1, UrlTypes
<1>4. Located(c)' <=> Located(c) /\ pc[c] # op
  BY <1>2 DEF Located
<1>5. Excused(c) => Excused(c)'
  BY <1>2 DEF Excused
<1>6. Placed(c)'
  <2>1. response'[c].kind = "none" => response'[c] = NoResponse
    BY <1>1, <1>2 DEF CallOK, Placed
  <2>2. pc[c] = op => pc[c] \notin {"start", "returned"}
    BY DEF Ops
  <2>3. Located(c)' => response'[c].location = response[c].location
    BY <1>2, <1>4
  <2> QED  BY <1>1, <1>2, <1>3, <1>4, <2>1, <2>2, <2>3 DEF CallOK, Placed
<1>7. OnTheWay(c)'
  <2>1. \A o : Sent(c, o)' /\ Awaited(c, o) => Awaited(c, o)'
    BY <1>2 DEF Awaited
  <2> QED  BY <1>1, <1>2, <1>5, <2>1 DEF CallOK, OnTheWay
<1> QED  BY <1>6, <1>7

(* A request is served: its operation ends in state, is noted as what, and is answered. *)
Served(c, op, n, state, what, kind) ==
  /\ Reaches(c, op, n) /\ Alive(n, url[c].id)
  /\ Update(n, url[c].id, state, <<c, what>>)
  /\ Reply(c, op, kind, NoUrl)
  /\ UNCHANGED <<clientVars, expired, faultVars>>

(* What this does to the transaction at u0, which is the call's. *)
Effect(c, op, u0, state, what, kind) ==
  /\ Sent(c, op) /\ u0 \in Urls /\ In(c, u0, "open") /\ ~In(c, u0, "committed")
  /\ At(u0)' = [state |-> state, ops |-> Append(At(u0).ops, <<c, what>>)]
  /\ \A j \in 1..Len(At(u0)'.ops) : At(u0)'.ops[j][1] = c
  /\ \A u \in Urls : Names(c, u)' <=> Names(c, u)
  /\ \A u \in Urls : Names(c, u) /\ u # u0 => At(u)' = At(u)
  /\ \A u \in Urls : \A s : In(c, u, s)' <=> IF u = u0 THEN s = state ELSE In(c, u, s)
  /\ pc' = pc /\ ret' = ret /\ url' = url /\ expired' = expired /\ hit' = hit
  /\ pc[c] = op => response'[c] = [kind |-> kind, location |-> NoUrl]
  /\ pc[c] # op => response'[c] = response[c]
  /\ \A o : Sent(c, o)' <=> Sent(c, o) /\ o # op

(* A served request changes the open transaction of its own call, and no other. *)
LEMMA ServedOwn ==
  ASSUME Invariant, NEW c \in Calls, NEW op \in Ops \ {"begin"}, NEW n \in Nodes,
         NEW state, NEW what, NEW kind \in {"ok", "status", "errors"},
         Served(c, op, n, state, what, kind),
         NEW u0, u0 = url[c]
  PROVE  /\ Effect(c, op, u0, state, what, kind)
         /\ Owned' /\ \A d \in Calls \ {c} : CallOK(d)'
         /\ Placed(c)' /\ OnTheWay(c)'
<1> USE DEF Served
<1>1. TypeOK /\ Owned /\ \A d \in Calls : CallOK(d)
  BY DEF Invariant
<1>2. /\ Sent(c, op) /\ u0 \in Urls /\ Names(c, u0) /\ u0.host = n
      /\ u0.host \in Nodes /\ u0.id \in Id(u0.host)
  BY <1>1, ReachesOwn, UrlTypes DEF Names
<1>3. In(c, u0, "open") /\ ~In(c, u0, "committed")
  BY <1>2 DEF In, At, Alive
<1>4. /\ At(u0)' = [state |-> state, ops |-> Append(At(u0).ops, <<c, what>>)]
      /\ \A u \in Urls : \A d : Names(d, u)' <=> Names(d, u)
      /\ \A u \in Urls : \A d : Names(d, u) /\ u # u0 => At(u)' = At(u)
      /\ Owned'
  BY <1>1, <1>2, UpdateKeeps
<1>5. /\ pc' = pc /\ ret' = ret /\ url' = url /\ expired' = expired /\ hit' = hit
      /\ pc[c] = op => response'[c] = [kind |-> kind, location |-> NoUrl]
      /\ pc[c] # op => response'[c] = response[c]
      /\ \A o : Sent(c, o)' <=> Sent(c, o) /\ o # op
      /\ \A d \in Calls \ {c} : /\ response'[d] = response[d]
                                /\ \A o : Sent(d, o)' <=> Sent(d, o)
  BY <1>1, ReplyKeeps DEF clientVars, faultVars
<1>6. \A u \in Urls : \A s : In(c, u, s)' <=> IF u = u0 THEN s = state ELSE In(c, u, s)
  <2>1. \A s : In(c, u0, s)' <=> s = state
    BY <1>2, <1>4 DEF In
  <2>2. \A u \in Urls : u # u0 => \A s : In(c, u, s)' <=> In(c, u, s)
    BY <1>4 DEF In
  <2> QED  BY <2>1, <2>2
<1>7. \A d \in Calls \ {c} : CallOK(d)'
  <2>1. \A d \in Calls \ {c} : Untouched(d)
    <3>1. \A d \in Calls \ {c} : ~Names(d, u0)
      BY <1>2 DEF Names
    <3> QED  BY <1>4, <3>1 DEF Untouched
  <2>2. \A d \in Calls \ {c} : Same(d)
    BY <1>5 DEF Same
  <2> QED  BY <1>1, <2>1, <2>2, Foreign
<1>8. Placed(c)' /\ OnTheWay(c)'
  BY <1>1, <1>2, <1>4, <1>5, AnswerKeeps DEF clientVars
<1>9. \A j \in 1..Len(At(u0)'.ops) : At(u0)'.ops[j][1] = c
  <2>1. At(u0).ops \in Seq(Entries)
    <3>1. At(u0) \in Transactions
      BY <1>1, <1>2 DEF TypeOK, At, Id
    <3> QED  BY <3>1 DEF Transactions
  <2>2. \A j \in 1..Len(At(u0).ops) : At(u0).ops[j][1] = c
    BY <1>1, <1>2 DEF CallOK, Shaped
  <2>3. At(u0)'.ops = Append(At(u0).ops, <<c, what>>)
    BY <1>4
  <2> QED  BY <2>1, <2>2, <2>3
<1> QED  BY <1>2, <1>3, <1>4, <1>5, <1>6, <1>7, <1>8, <1>9 DEF Effect

(* What was done in the other transactions of the call is as it was. *)
LEMMA ShapedOnce ==
  ASSUME NEW c \in Calls, Shaped(c), hit' = hit, NEW u0 \in Urls,
         \A u \in Urls : Names(c, u)' <=> Names(c, u),
         \A u \in Urls : Names(c, u) /\ u # u0 => At(u)' = At(u),
         /\ \A j \in 1..Len(At(u0)'.ops) : At(u0)'.ops[j][1] = c
         /\ At(u0)'.state = "open" => At(u0)'.ops \in {Begun(c), Done(c), Undone(c)}
         /\ At(u0)'.state = "committed" =>
              At(u0)'.ops = Whole(c) \/ (At(u0)'.ops = Flawed(c) /\ "unreadable" \in hit[c])
  PROVE  Shaped(c)'
BY DEF Shaped, Begun, Done, Undone, Whole, Flawed

LEMMA ServeExecuteKeeps ==
  ASSUME Invariant, NEW c \in Calls, NEW n \in Nodes, ServeExecute(c, n)
  PROVE  Owned' /\ \A d \in Calls : CallOK(d)'
<1>1. CallOK(c)
  BY DEF Invariant
<1>2. PICK u0 : u0 = url[c]
  OBVIOUS
<1>3. \E state \in {"open", "closed"}, what \in {"execute", "failed"}, kind \in {"ok", "status", "errors"} :
        /\ Served(c, "execute", n, state, what, kind)
        /\ what = "execute" => state = "open" /\ kind = "ok"
        /\ what = "failed" => kind # "ok"
  BY DEF ServeExecute, FailureKind, Served
<1>4. PICK state \in {"open", "closed"}, what \in {"execute", "failed"}, kind \in {"ok", "status", "errors"} :
        /\ Served(c, "execute", n, state, what, kind)
        /\ what = "execute" => state = "open" /\ kind = "ok"
        /\ what = "failed" => kind # "ok"
  BY <1>3
<1>5. /\ Effect(c, "execute", u0, state, what, kind)
      /\ Owned' /\ \A d \in Calls \ {c} : CallOK(d)'
      /\ Placed(c)' /\ OnTheWay(c)'
  <2>1. "execute" \in Ops \ {"begin"}
    BY DEF Ops
  <2> QED  BY <1>2, <1>4, <2>1, ServedOwn
<1> USE <1>5 DEF Effect
<1>6. /\ At(u0).ops = Begun(c)
      /\ what = "execute" => At(u0)'.ops = Done(c)
      /\ what = "failed" => At(u0)'.ops = Undone(c)
      /\ At(u0)'.state = state
  BY <1>1, <1>2, OperationsAdd DEF CallOK, Pending
<1>7. /\ ~Sent(c, "commit") /\ pc[c] \in {"execute", "rollback", "returned"}
      /\ url[c] # NoUrl
  BY <1>1, <1>2, <1>6, OperationsAdd DEF CallOK, OnTheWay, Placed, Pending, Awaited
<1>8. ~Located(c) /\ ~Located(c)'
  BY <1>7 DEF Located
<1>9. Excused(c)' <=> Excused(c)
  BY DEF Excused
<1>10. Shaped(c)'
  <2>1. At(u0)'.ops \in {Done(c), Undone(c)}
    BY <1>6
  <2> QED  BY <1>1, <1>6, <2>1, ShapedOnce DEF CallOK
<1>11. Pending(c)'
  <2>1. pc[c] = "execute" => response'[c].kind = kind
    OBVIOUS
  <2>2. /\ (pc[c] = "execute" /\ kind = "ok") => At(u0)'.ops = Done(c)
        /\ (pc[c] = "execute" /\ kind = "errors") => At(u0)'.ops = Undone(c)
    BY <1>4, <1>6
  <2> QED  BY <1>2, <1>7, <1>8, <2>1, <2>2 DEF Pending, Done, Undone
<1>12. Known(c)'
  BY <1>1, <1>2, <1>4, <1>7 DEF CallOK, Known
<1>13. Cleaned(c)'
  BY <1>1, <1>2, <1>7, <1>8, <1>9 DEF CallOK, Cleaned
<1> QED  BY <1>10, <1>11, <1>12, <1>13 DEF CallOK

LEMMA ServeCommitKeeps ==
  ASSUME Invariant, NEW c \in Calls, NEW n \in Nodes, ServeCommit(c, n)
  PROVE  Owned' /\ \A d \in Calls : CallOK(d)'
<1>1. CallOK(c)
  BY DEF Invariant
<1>2. PICK u0 : u0 = url[c]
  OBVIOUS
<1>3. \E state \in {"committed", "closed"}, what \in {"commit", "failed"}, kind \in {"ok", "status", "errors"} :
        /\ Served(c, "commit", n, state, what, kind)
        /\ state = "committed" <=> what = "commit"
        /\ state = "committed" <=> kind = "ok"
  BY DEF ServeCommit, FailureKind, Served
<1>4. PICK state \in {"committed", "closed"}, what \in {"commit", "failed"}, kind \in {"ok", "status", "errors"} :
        /\ Served(c, "commit", n, state, what, kind)
        /\ state = "committed" <=> what = "commit"
        /\ state = "committed" <=> kind = "ok"
  BY <1>3
<1>5. /\ Effect(c, "commit", u0, state, what, kind)
      /\ Owned' /\ \A d \in Calls \ {c} : CallOK(d)'
      /\ Placed(c)' /\ OnTheWay(c)'
  <2>1. "commit" \in Ops \ {"begin"}
    BY DEF Ops
  <2> QED  BY <1>2, <1>4, <2>1, ServedOwn
<1> USE <1>5 DEF Effect
<1>6. /\ At(u0)'.state = state
      /\ state = "committed" =>
           At(u0)'.ops = Whole(c) \/ (At(u0)'.ops = Flawed(c) /\ "unreadable" \in hit[c])
  BY <1>1, <1>2, <1>4, OperationsAdd DEF CallOK, Pending
<1>7. /\ pc[c] = "commit" \/ (ret[c] = "err" /\ (expired[c] \/ "commit" \in hit[c]))
      /\ pc[c] \in {"commit", "returned"} /\ url[c] # NoUrl
  BY <1>1 DEF CallOK, OnTheWay, Placed, Awaited
<1>8. ~Located(c) /\ ~Located(c)'
  BY <1>7 DEF Located
<1>9. Excused(c)' <=> Excused(c)
  BY DEF Excused
<1>10. ~In(c, u0, "open")'
  OBVIOUS
<1>11. Shaped(c)'
  <2>1. At(u0)'.state # "open"
    BY <1>6
  <2> QED  BY <1>1, <1>6, <2>1, ShapedOnce DEF CallOK
<1>12. Pending(c)'
  BY <1>2, <1>8, <1>10 DEF Pending
<1>13. Known(c)'
  <2>1. ASSUME NEW u \in Urls, In(c, u, "committed")'
        PROVE  u = u0 /\ state = "committed"
    BY <1>1, <1>2, <2>1 DEF CallOK, Known
  <2>2. pc[c] = "commit" /\ state = "committed" => response'[c].kind = "ok"
    BY <1>4
  <2>3. pc[c] = "commit" /\ response'[c].kind = "ok" => state = "committed"
    BY <1>4
  <2>4. ret[c] = "nil" => pc[c] = "returned"
    BY <1>1 DEF CallOK, Placed
  <2> QED  BY <1>1, <1>2, <1>7, <2>1, <2>2, <2>3, <2>4 DEF CallOK, Known
<1>14. Cleaned(c)'
  BY <1>1, <1>2, <1>8, <1>9, <1>10 DEF CallOK, Cleaned
<1> QED  BY <1>11, <1>12, <1>13, <1>14 DEF CallOK

LEMMA ServeRollbackKeeps ==
  ASSUME Invariant, NEW c \in Calls, NEW n \in Nodes, ServeRollback(c, n)
  PROVE  Owned' /\ \A d \in Calls : CallOK(d)'
<1>1. CallOK(c)
  BY DEF Invariant
<1>2. PICK u0 : u0 = url[c]
  OBVIOUS
<1>3. /\ Effect(c, "rollback", u0, "closed", "rollback", "ok")
      /\ Owned' /\ \A d \in Calls \ {c} : CallOK(d)'
      /\ Placed(c)' /\ OnTheWay(c)'
  <2>1. "rollback" \in Ops \ {"begin"}
    BY DEF Ops
  <2>2. Served(c, "rollback", n, "closed", "rollback", "ok")
    BY DEF ServeRollback, Served
  <2> QED  BY <1>2, <2>1, <2>2, ServedOwn
<1> USE <1>3 DEF Effect
<1>4. ~In(c, u0, "open")' /\ ~In(c, u0, "committed")'
  OBVIOUS
<1>5. pc[c] \in {"rollback", "returned"} /\ url[c] # NoUrl
  BY <1>1 DEF CallOK, OnTheWay, Placed, Awaited
<1>6. ~Located(c) /\ ~Located(c)'
  BY <1>5 DEF Located
<1>7. Excused(c)' <=> Excused(c)
  BY DEF Excused
<1>8. Shaped(c)'
  <2>1. At(u0)'.state = "closed"
    OBVIOUS
  <2> QED  BY <1>1, <2>1, ShapedOnce DEF CallOK
<1>9. Pending(c)'
  BY <1>2, <1>4, <1>6 DEF Pending
<1>10. Known(c)'
  BY <1>1, <1>2, <1>4, <1>5 DEF CallOK, Known
<1>11. Cleaned(c)'
  BY <1>1, <1>2, <1>4, <1>6, <1>7 DEF CallOK, Cleaned
<1> QED  BY <1>8, <1>9, <1>10, <1>11 DEF CallOK

(* An answer that nothing was done for: 404, or an error of the balancer. *)
LEMMA NothingDoneKeeps ==
  ASSUME Invariant, NEW c \in Calls, NEW op \in Ops, Sent(c, op), Reply(c, op, "status", NoUrl),
         UNCHANGED <<clientVars, expired, log>>, hit[c] \subseteq hit'[c],
         \A d \in Calls \ {c} : hit'[d] = hit[d],
         \/ Excused(c)'
         \/ op = "execute"
         \/ op # "begin" /\ ~In(c, url[c], "open")
  PROVE  Owned' /\ \A d \in Calls : CallOK(d)'
<1>1. TypeOK /\ Owned /\ \A d \in Calls : CallOK(d)
  BY DEF Invariant
<1>2. \A d, u : /\ Names(d, u)' <=> Names(d, u)
                /\ At(u)' = At(u)
                /\ \A state : In(d, u, state)' <=> In(d, u, state)
  BY SameLog
<1>3. /\ pc' = pc /\ ret' = ret /\ url' = url /\ expired' = expired /\ log' = log
      /\ pc[c] = op => response'[c] = [kind |-> "status", location |-> NoUrl]
      /\ pc[c] # op => response'[c] = response[c]
      /\ \A o : Sent(c, o)' <=> Sent(c, o) /\ o # op
      /\ \A d \in Calls \ {c} : /\ response'[d] = response[d]
                                /\ \A o : Sent(d, o)' <=> Sent(d, o)
  BY <1>1, ReplyKeeps DEF clientVars
<1>4. \A d \in Calls \ {c} : CallOK(d)'
  <2>1. \A d \in Calls \ {c} : Untouched(d)
    BY <1>2 DEF Untouched
  <2>2. \A d \in Calls \ {c} : Same(d)
    BY <1>3 DEF Same
  <2> QED  BY <1>1, <2>1, <2>2, Foreign
<1>5. Owned'
  BY <1>1, <1>3 DEF Owned, Id
<1>6. Located(c)' => pc[c] # op /\ Located(c) /\ response'[c] = response[c]
  BY <1>3 DEF Located
<1>7. Excused(c) => Excused(c)'
  BY <1>3 DEF Excused
<1>8. Placed(c)' /\ OnTheWay(c)'
  BY <1>2, AnswerKeeps
<1>9. Shaped(c)'
  BY <1>1, <1>3, ShapedKept DEF CallOK
<1>10. Pending(c)'
  <2>1. response'[c].kind # "status" => response'[c] = response[c]
    BY <1>3
  <2>2. \A o : Sent(c, o)' => Sent(c, o)
    BY <1>3
  <2>3. pc' = pc /\ url' = url /\ hit[c] \subseteq hit'[c]
    BY <1>3
  <2> QED  BY <1>1, <1>2, <1>6, <2>1, <2>2, <2>3 DEF CallOK, Pending, Begun, Done, Undone
<1>11. Known(c)'
  BY <1>1, <1>2, <1>3 DEF CallOK, Known
<1>12. Cleaned(c)'
  <2>1. SUFFICES ASSUME ~Excused(c)' PROVE Cleaned(c)'
    BY DEF Cleaned
  <2>2. url[c] # NoUrl /\ ~Located(c)
    BY <1>1, <2>1 DEF CallOK, OnTheWay, Placed, Located, Ops
  <2> QED  BY <1>1, <1>2, <1>3, <1>6, <1>7, <2>1, <2>2 DEF CallOK, Cleaned
<1> QED  BY <1>4, <1>5, <1>8, <1>9, <1>10, <1>11, <1>12 DEF CallOK

LEMMA NotFoundKeeps ==
  ASSUME Invariant, NEW c \in Calls, NEW op \in Ops, NEW n \in Nodes, NotFound(c, op, n)
  PROVE  Owned' /\ \A d \in Calls : CallOK(d)'
<1>1. Reaches(c, op, n) /\ op # "begin" /\ ~Alive(n, url[c].id)
  BY DEF NotFound
<1>2. Sent(c, op) /\ url[c].host = n /\ Names(c, url[c])
  BY <1>1, ReachesOwn
<1>3. ~In(c, url[c], "open")
  BY <1>1, <1>2 DEF In, Names, At, Alive, Id
<1> QED  BY <1>1, <1>2, <1>3, NothingDoneKeeps DEF NotFound, faultVars

LEMMA RefuseKeeps ==
  ASSUME Invariant, NEW c \in Calls, NEW op \in Ops, Refuse(c, op)
  PROVE  Owned' /\ \A d \in Calls : CallOK(d)'
<1>1. /\ Sent(c, op) /\ Reply(c, op, "status", NoUrl)
      /\ UNCHANGED <<clientVars, expired, log>> /\ TypeOK
  BY DEF Refuse, Sent, Invariant
<1>2. op \in hit'[c] /\ hit[c] \subseteq hit'[c] /\ \A d \in Calls \ {c} : hit'[d] = hit[d]
  BY <1>1, FaultKeeps DEF Refuse
<1>3. Excused(c)' \/ op = "execute"
  BY <1>2 DEF Excused, Ops
<1> QED  BY <1>1, <1>2, <1>3, NothingDoneKeeps

(* The transaction is no longer open: no call has to end it. *)
LEMMA ExpireKeeps ==
  ASSUME Invariant, NEW n \in Nodes, NEW id \in Id(n), Expire(n, id)
  PROVE  Owned' /\ \A d \in Calls : CallOK(d)'
<1>1. TypeOK /\ Owned /\ \A d \in Calls : CallOK(d)
  BY DEF Invariant
<1>2. PICK u0 : u0 = [host |-> n, id |-> id]
  OBVIOUS
<1>3. u0 \in Urls /\ u0.host \in Nodes /\ u0.id \in Id(u0.host) /\ At(u0).state = "open"
  BY <1>2 DEF Urls, Hosts, At, Expire, Alive, Id
<1> DEFINE t == [At(u0) EXCEPT !.state = "closed"]
<1>4. /\ At(u0) \in Transactions /\ At(u0).ops # <<>>
  BY <1>1, <1>3 DEF TypeOK, Owned, At, Id
<1>5. t.ops = At(u0).ops /\ t.state = "closed"
  BY <1>4 DEF Transactions
<1>6. log' = [log EXCEPT ![u0.host] = [log[u0.host] EXCEPT ![u0.id] = t]]
  BY <1>2 DEF Expire, At
<1> HIDE DEF t
<1>7. /\ At(u0)' = t
      /\ \A u \in Urls : \A d : Names(d, u)' <=> Names(d, u)
      /\ \A u \in Urls : \A d : Names(d, u) /\ u # u0 => At(u)' = At(u)
      /\ Owned'
  BY <1>1, <1>3, <1>4, <1>5, <1>6, ChangeKeeps
<1>8. ASSUME NEW d \in Calls PROVE CallOK(d)'
  <2>1. Same(d) /\ hit' = hit /\ url[d] \in Urls /\ response[d].location \in Urls
    BY <1>1, UrlTypes DEF Expire, Same, clientVars, Sent
  <2>2. /\ Excused(d)' <=> Excused(d)
        /\ Located(d)' <=> Located(d)
    BY <2>1 DEF Excused, Located, Same
  <2>3. \A u \in Urls : /\ In(d, u, "open")' <=> In(d, u, "open") /\ u # u0
                        /\ In(d, u, "committed")' <=> In(d, u, "committed")
    BY <1>3, <1>5, <1>7 DEF In
  <2>4. \A u \in Urls : In(d, u, "open")' => At(u)' = At(u)
    BY <1>7, <2>3 DEF In
  <2>5. Placed(d)'
    BY <1>1, <1>7, <2>1, <2>2 DEF CallOK, Placed, Same
  <2>6. OnTheWay(d)'
    BY <1>1, <2>1, <2>2 DEF CallOK, OnTheWay, Awaited, Same
  <2>7. Shaped(d)'
    <3>1. ASSUME Names(d, u0) PROVE \A j \in 1..Len(t.ops) : t.ops[j][1] = d
      BY <1>1, <1>3, <1>5, <3>1 DEF CallOK, Shaped
    <3>2. \A u \in Urls : Names(d, u)' => (u = u0 /\ At(u)' = t) \/ At(u)' = At(u)
      BY <1>7
    <3> QED  BY <1>1, <1>5, <1>7, <2>1, <3>1, <3>2
             DEF CallOK, Shaped, Begun, Done, Undone, Whole, Flawed
  <2>8. Pending(d)'
    BY <1>1, <2>1, <2>2, <2>3, <2>4 DEF CallOK, Pending, Same, Begun, Done, Undone
  <2>9. Known(d)'
    BY <1>1, <2>1, <2>3 DEF CallOK, Known, Same
  <2>10. Cleaned(d)'
    BY <1>1, <2>1, <2>2, <2>3 DEF CallOK, Cleaned, Same
  <2> QED  BY <2>5, <2>6, <2>7, <2>8, <2>9, <2>10 DEF CallOK
<1> QED  BY <1>7, <1>8

-----------------------------------------------------------------------------
(***************************************************************************)
(* The invariant is inductive.                                             *)
(***************************************************************************)
LEMMA InvariantInit == Init => Invariant
<1> SUFFICES ASSUME Init PROVE Invariant
  OBVIOUS
<1>1. Owned
  BY DEF Init, Owned, Id
<1>2. ASSUME NEW c \in Calls PROVE CallOK(c)
  <2>1. /\ pc[c] = "start" /\ ret[c] = "none" /\ url[c] = NoUrl /\ response[c] = NoResponse
        /\ \A o : ~Sent(c, o)
        /\ ~Located(c)
    BY DEF Init, Sent, Located
  <2>2. \A u : ~Names(c, u) /\ \A state : ~In(c, u, state)
    BY DEF Init, Names, In, Id
  <2> QED  BY <2>1, <2>2 DEF CallOK, Placed, OnTheWay, Shaped, Pending, Known, Cleaned
<1> QED  BY <1>1, <1>2, TypeInit DEF Invariant

LEMMA InvariantStep == Invariant /\ [Next]_vars => Invariant'
<1> SUFFICES ASSUME Invariant, [Next]_vars PROVE Invariant'
  OBVIOUS
<1>1. TypeOK'
  BY TypeStep DEF Invariant
<1>2. Owned' /\ \A d \in Calls : CallOK(d)'
  <2>1. ASSUME NEW c \in Calls, CallBegin(c) \/ Client(c) \/ Deadline(c)
        PROVE  Owned' /\ \A d \in Calls : CallOK(d)'
    BY <2>1, ClientKeeps
  <2>2. ASSUME NEW c \in Calls, Serve(c)
        PROVE  Owned' /\ \A d \in Calls : CallOK(d)'
    BY <2>2, ServeBeginKeeps, ReplayBeginKeeps, ServeExecuteKeeps, ServeCommitKeeps,
       ServeRollbackKeeps, NotFoundKeeps, RefuseKeeps DEF Serve
  <2>3. ASSUME NEW n \in Nodes, NEW id \in Id(n), Expire(n, id)
        PROVE  Owned' /\ \A d \in Calls : CallOK(d)'
    BY <2>3, ExpireKeeps
  <2>4. CASE UNCHANGED vars
    <3>1. Owned'
      BY <2>4 DEF Invariant, vars, Owned, Id
    <3>2. ASSUME NEW d \in Calls PROVE CallOK(d)'
      <4>1. Same(d) /\ Untouched(d)
        BY <2>4, SameLog DEF vars, clientVars, faultVars, Same, Untouched, Sent
      <4> QED  BY <4>1, Foreign DEF Invariant
    <3> QED  BY <3>1, <3>2
  <2> QED  BY <2>1, <2>2, <2>3, <2>4 DEF Next, Terminated, Id
<1> QED  BY <1>1, <1>2 DEF Invariant

LEMMA InvariantHolds == Spec => []Invariant
<1> QED  BY InvariantInit, InvariantStep, PTL DEF Spec

(* The transactions the properties range over are the ones that URLs name. *)
LEMMA TransactionsNamed ==
  ASSUME Invariant, NEW t \in AllTransactions
  PROVE  \E u \in Urls : /\ u.host = t[1] /\ u.id = t[2] /\ At(u) = Of(t)
                         /\ Owner(Of(t)) \in Calls /\ Names(Owner(Of(t)), u)
<1>1. PICK n \in Nodes : \E id \in Id(n) : t = <<n, id>>
  BY DEF AllTransactions, Id
<1>2. PICK id \in Id(n) : t = <<n, id>>
  BY <1>1
<1>3. [host |-> n, id |-> id] \in Urls
  BY DEF Urls, Hosts, Id
<1>4. Of(t) = log[n][id] /\ Owner(log[n][id]) \in Calls
  BY <1>2 DEF Of, Invariant, Owned
<1> WITNESS [host |-> n, id |-> id] \in Urls
<1> QED  BY <1>2, <1>3, <1>4 DEF At, Names

LEMMA NamedTransaction ==
  ASSUME NEW c \in Calls, NEW u \in Urls, Names(c, u)
  PROVE  <<u.host, u.id>> \in AllTransactions /\ Of(<<u.host, u.id>>) = At(u)
BY DEF Names, AllTransactions, Of, At, Id

-----------------------------------------------------------------------------
(* A cycle stays pinned to the transaction its begin opened: no call ever    *)
(* executes in, commits or rolls back a transaction of another, for any      *)
(* number of calls and nodes that number their transactions alike.           *)
THEOREM PinnedHolds == Spec => []Pinned
<1>1. ASSUME Invariant PROVE Pinned
  <2>1. ASSUME NEW t \in AllTransactions, NEW j \in 1..Len(Of(t).ops)
        PROVE  Of(t).ops[j][1] = Owner(Of(t))
    <3>1. PICK u \in Urls : /\ At(u) = Of(t) /\ Owner(Of(t)) \in Calls
                            /\ Names(Owner(Of(t)), u)
      BY <1>1, TransactionsNamed
    <3> QED  BY <1>1, <3>1 DEF Invariant, CallOK, Shaped
  <2> QED  BY <2>1 DEF Pinned
<1> QED  BY <1>1, InvariantHolds, PTL

(* nil means that a transaction holding exactly the call's statement was     *)
(* committed, unless a legacy answer of the call could not be decoded.       *)
THEOREM NilMeansCommittedHolds == Spec => []NilMeansCommitted
<1>1. ASSUME Invariant PROVE NilMeansCommitted
  <2>1. ASSUME NEW c \in Calls, ret[c] = "nil", "unreadable" \notin hit[c]
        PROVE  \E t \in AllTransactions : Of(t) = [state |-> "committed", ops |-> Whole(c)]
    <3>1. CallOK(c) /\ url[c] \in Urls
      BY <1>1, UrlTypes DEF Invariant
    <3>2. In(c, url[c], "committed")
      BY <2>1, <3>1 DEF CallOK, Known
    <3>3. At(url[c]).state = "committed" /\ At(url[c]).ops = Whole(c)
      BY <2>1, <3>1, <3>2 DEF CallOK, Shaped, In
    <3>4. At(url[c]) \in Transactions
      BY <1>1, <3>2 DEF Invariant, TypeOK, In, Names, At, Id
    <3>5. At(url[c]) = [state |-> "committed", ops |-> Whole(c)]
      BY <3>3, <3>4 DEF Transactions
    <3> QED  BY <3>1, <3>2, <3>5, NamedTransaction DEF In
  <2> QED  BY <2>1 DEF NilMeansCommitted
<1> QED  BY <1>1, InvariantHolds, PTL

(* An error is returned for a statement that was committed only if the       *)
(* deadline passed or the commit exchange itself broke.                      *)
THEOREM ErrorMeansNotCommittedHolds == Spec => []ErrorMeansNotCommitted
<1>1. ASSUME Invariant PROVE ErrorMeansNotCommitted
  <2>1. ASSUME NEW c \in Calls, ret[c] = "err", NEW t \in AllTransactions,
               Of(t).state = "committed", Owner(Of(t)) = c
        PROVE  expired[c] \/ "commit" \in hit[c]
    <3>1. PICK u \in Urls : At(u) = Of(t) /\ Names(c, u)
      BY <1>1, <2>1, TransactionsNamed
    <3>2. CallOK(c) /\ In(c, u, "committed")
      BY <1>1, <2>1, <3>1 DEF Invariant, In
    <3>3. pc[c] = "returned"
      BY <2>1, <3>2 DEF CallOK, Placed
    <3> QED  BY <2>1, <3>2, <3>3 DEF CallOK, Known
  <2> QED  BY <2>1 DEF ErrorMeansNotCommitted
<1> QED  BY <1>1, InvariantHolds, PTL

(* A call that returned left a transaction open only if its deadline passed, *)
(* or begin, commit or the rollback went wrong outside it: what a broken,    *)
(* late or refused execute left behind was rolled back.                      *)
THEOREM NothingLeftOpenHolds == Spec => []NothingLeftOpen
<1>1. ASSUME Invariant PROVE NothingLeftOpen
  <2>1. ASSUME NEW c \in Calls, ret[c] # "none", NEW t \in AllTransactions,
               Of(t).state = "open", Owner(Of(t)) = c
        PROVE  Excused(c)
    <3>1. PICK u \in Urls : At(u) = Of(t) /\ Names(c, u)
      BY <1>1, <2>1, TransactionsNamed
    <3>2. CallOK(c) /\ In(c, u, "open") /\ pc[c] = "returned"
      BY <1>1, <2>1, <3>1 DEF Invariant, In, CallOK, Placed
    <3> QED  BY <3>2 DEF CallOK, Cleaned, Located
  <2> QED  BY <2>1 DEF NothingLeftOpen, Excused
<1> QED  BY <1>1, InvariantHolds, PTL

-----------------------------------------------------------------------------
(***************************************************************************)
(* RunTransaction keeps its promise: seen through OutcomeOf and AppliedOf, *)
(* every step of ManagedTx is a step of Transaction or changes nothing     *)
(* there.                                                                  *)
(***************************************************************************)
(* The call's transaction was committed with its statement in it. *)
Took(c) == In(c, url[c], "committed") /\ At(url[c]).ops = Whole(c)

(* An execute in a committed transaction is that of the one its call asked for. *)
LEMMA ExecutedOnce ==
  ASSUME Invariant, NEW c \in Calls, NEW a \in Applications(c)
  PROVE  Took(c) /\ a = << <<url[c].host, url[c].id>>, 2>>
<1>1. PICK t \in AllTransactions, j \in 1..3 : a = <<t, j>>
  BY DEF Applications
<1>2. Of(t).state = "committed" /\ j <= Len(Of(t).ops) /\ Of(t).ops[j] = <<c, "execute">>
  BY <1>1 DEF Applications
<1>3. PICK u \in Urls : /\ u.host = t[1] /\ u.id = t[2] /\ At(u) = Of(t)
                        /\ Owner(Of(t)) \in Calls /\ Names(Owner(Of(t)), u)
  BY TransactionsNamed
<1>4. /\ Of(t).ops = Whole(Owner(Of(t))) \/ Of(t).ops = Flawed(Owner(Of(t)))
      /\ In(Owner(Of(t)), u, "committed")
  BY <1>2, <1>3 DEF Invariant, CallOK, Shaped, In
<1>5. Owner(Of(t)) = c /\ j = 2 /\ Of(t).ops = Whole(c)
  <2>1. j = 1 \/ j = 2 \/ j = 3
    OBVIOUS
  <2> QED  BY <1>2, <1>4, <2>1 DEF Whole, Flawed
<1>6. url[c] = u
  BY <1>3, <1>4, <1>5 DEF Invariant, CallOK, Known
<1>7. t = <<t[1], t[2]>>
  BY DEF AllTransactions
<1> QED  BY <1>1, <1>3, <1>4, <1>5, <1>6, <1>7 DEF Took

LEMMA AppliedIs ==
  Invariant => \A c \in Calls : AppliedOf[c] = IF Took(c) THEN 1 ELSE 0
<1> SUFFICES ASSUME Invariant, NEW c \in Calls PROVE AppliedOf[c] = IF Took(c) THEN 1 ELSE 0
  OBVIOUS
<1>1. CASE ~Took(c)
  <2>1. Applications(c) = {}
    BY <1>1, ExecutedOnce
  <2> QED  BY <1>1, <2>1, FS_EmptySet DEF AppliedOf
<1>2. CASE Took(c)
  <2> DEFINE t == <<url[c].host, url[c].id>>
  <2>1. url[c] \in Urls /\ Names(c, url[c])
    BY <1>2, UrlTypes DEF Took, In, Invariant
  <2>2. t \in AllTransactions /\ Of(t) = At(url[c])
    BY <2>1, NamedTransaction
  <2>3. Of(t).state = "committed" /\ 2 <= Len(Of(t).ops) /\ Of(t).ops[2] = <<c, "execute">>
    BY <1>2, <2>2 DEF Took, In, Whole
  <2>4. <<t, 2>> \in Applications(c)
    BY <2>2, <2>3 DEF Applications
  <2>5. Applications(c) = {<<t, 2>>}
    BY <2>4, ExecutedOnce
  <2> QED  BY <1>2, <2>5, FS_Singleton DEF AppliedOf
<1> QED  BY <1>1, <1>2

(* Nothing is applied and nothing undone while the committed transactions stay. *)
CommittedKept ==
  \A d \in Calls : \A u \in Urls :
    /\ In(d, u, "committed")' <=> In(d, u, "committed")
    /\ In(d, u, "committed") => At(u)' = At(u)

LEMMA AppliedThen ==
  ASSUME Invariant' PROVE \A c \in Calls : AppliedOf'[c] = IF Took(c)' THEN 1 ELSE 0
<1>1. (Invariant => \A c \in Calls : AppliedOf[c] = IF Took(c) THEN 1 ELSE 0)'
  BY AppliedIs, PTL
<1> QED  BY <1>1

LEMMA AppliedKept ==
  ASSUME Invariant, Invariant', CommittedKept, url' = url
  PROVE  AppliedOf' = AppliedOf
<1>1. \A c \in Calls : Took(c)' <=> Took(c)
  BY UrlTypes DEF Took, CommittedKept, Invariant, Whole
<1>2. \A c \in Calls : AppliedOf'[c] = AppliedOf[c]
  BY <1>1, AppliedIs, AppliedThen
<1> QED  BY <1>2 DEF AppliedOf

(* What the caller of c sees. *)
Outcome(c) ==
  CASE ret[c] = "none" -> "running"
    [] ret[c] = "err"  -> "failed"
    [] ret[c] = "nil"  -> IF "unreadable" \in hit[c] THEN "unverified" ELSE "ok"

LEMMA OutcomeIs == OutcomeOf = [c \in Calls |-> Outcome(c)]
BY DEF OutcomeOf, Outcome

(* A step in which one call sees another outcome, or none does. *)
LEMMA OutcomeSet ==
  ASSUME NEW c \in Calls, NEW o, Outcome(c)' = o, \A d \in Calls \ {c} : Outcome(d)' = Outcome(d)
  PROVE  OutcomeOf' = [OutcomeOf EXCEPT ![c] = o]
<1>1. OutcomeOf' = [d \in Calls |-> Outcome(d)']
  BY DEF OutcomeOf, Outcome
<1> QED  BY <1>1, OutcomeIs

LEMMA OutcomeKept ==
  ASSUME ret' = ret, \A c \in Calls : ret[c] = "nil" => ("unreadable" \in hit'[c] <=> "unreadable" \in hit[c])
  PROVE  OutcomeOf' = OutcomeOf
<1>1. \A c \in Calls : OutcomeOf'[c] = OutcomeOf[c]
  BY DEF OutcomeOf
<1> QED  BY <1>1 DEF OutcomeOf

LEMMA AppliedByLog == log' = log => AppliedOf' = AppliedOf
<1> SUFFICES ASSUME log' = log PROVE AppliedOf' = AppliedOf
  OBVIOUS
<1>1. AllTransactions' = AllTransactions /\ \A t : Of(t)' = Of(t)
  BY DEF AllTransactions, Of
<1>2. \A c \in Calls : Applications(c)' = Applications(c)
  BY <1>1 DEF Applications
<1> QED  BY <1>2 DEF AppliedOf

-----------------------------------------------------------------------------
LEMMA InitMaps == Init => Promise!TransactionInit
<1> SUFFICES ASSUME Init PROVE Promise!TransactionInit
  OBVIOUS
<1>1. OutcomeOf = [c \in Calls |-> "running"]
  BY DEF Init, OutcomeOf
<1>2. \A c \in Calls : ~Took(c)
  BY NoUrlNamesNothing DEF Init, Took, In
<1>3. AppliedOf = [c \in Calls |-> 0]
  BY <1>2, InvariantInit, AppliedIs DEF AppliedOf
<1> QED  BY <1>1, <1>3 DEF Promise!TransactionInit

Unseen == UNCHANGED <<OutcomeOf, AppliedOf>>

(* The call goes on. *)
LEMMA RunningUnseen ==
  ASSUME Invariant, NEW c \in Calls,
         \/ CallBegin(c) \/ BeginSucceeds(c) \/ ExecuteSucceeds(c) \/ ExecuteFails(c) \/ Deadline(c)
  PROVE  Unseen
<1>1. TypeOK /\ Placed(c)
  BY DEF Invariant, CallOK
<1>2. log' = log /\ ret' = ret /\ ret[c] = "none"
  BY <1>1 DEF CallBegin, BeginSucceeds, ExecuteSucceeds, ExecuteFails, Deadline, Enter, clientVars,
              Accepts, Rejects, DoFails, Answered, Placed, TypeOK, Ops
<1>3. \A d \in Calls \ {c} : hit'[d] = hit[d]
  BY <1>1, ClientAlone DEF Client, Same
<1>4. OutcomeOf' = OutcomeOf
  BY <1>2, <1>3, OutcomeKept
<1> QED  BY <1>2, <1>4, AppliedByLog DEF Unseen

(* The call returns an error. *)
LEMMA ErrorMaps ==
  ASSUME Invariant, NEW c \in Calls, BeginFails(c) \/ RollbackEnds(c) \/ CommitFails(c)
  PROVE  Promise!Finish(c, "failed")
<1>1. TypeOK /\ Placed(c)
  BY DEF Invariant, CallOK
<1>2. log' = log /\ \A d \in Calls \ {c} : ret'[d] = ret[d] /\ hit'[d] = hit[d]
  BY <1>1, ClientAlone DEF Client, Same
<1>3. ret[c] = "none" /\ ret'[c] = "err"
  BY <1>1 DEF BeginFails, RollbackEnds, CommitFails, Return, Rejects, DoFails, Answered, Placed, TypeOK
<1>4. OutcomeOf[c] = "running" /\ OutcomeOf' = [OutcomeOf EXCEPT ![c] = "failed"]
  <2>1. ASSUME NEW d \in Calls \ {c} PROVE Outcome(d)' = Outcome(d)
    BY <1>2 DEF Outcome
  <2>2. Outcome(c) = "running" /\ Outcome(c)' = "failed"
    BY <1>3 DEF Outcome
  <2> QED  BY <2>1, <2>2, OutcomeIs, OutcomeSet
<1> QED  BY <1>2, <1>4, AppliedByLog DEF Promise!Finish

(* The call returns nil: what it promises has been applied, if it could tell. *)
LEMMA NilMaps ==
  ASSUME Invariant, Invariant', NEW c \in Calls, CommitSucceeds(c)
  PROVE  \E o \in {"ok", "unverified"} : Promise!Finish(c, o)
<1>1. TypeOK /\ Placed(c)
  BY DEF Invariant, CallOK
<1>2. log' = log /\ \A d \in Calls \ {c} : ret'[d] = ret[d] /\ hit'[d] = hit[d]
  BY <1>1, ClientAlone DEF Client, Same
<1>3. ret[c] = "none" /\ ret'[c] = "nil"
  BY <1>1 DEF CommitSucceeds, Return, Accepts, Answered, Placed, TypeOK
<1>4. AppliedOf' = AppliedOf
  BY <1>2, AppliedByLog
<1>5. PICK o \in {"ok", "unverified"} : o = "unverified" <=> "unreadable" \in hit'[c]
  <2>1. CASE "unreadable" \in hit'[c]
    BY <2>1
  <2>2. CASE "unreadable" \notin hit'[c]
    BY <2>2
  <2> QED  BY <2>1, <2>2
<1>6. OutcomeOf[c] = "running" /\ OutcomeOf' = [OutcomeOf EXCEPT ![c] = o]
  <2>1. ASSUME NEW d \in Calls \ {c} PROVE Outcome(d)' = Outcome(d)
    BY <1>2 DEF Outcome
  <2>2. Outcome(c) = "running" /\ Outcome(c)' = o
    BY <1>3, <1>5 DEF Outcome
  <2> QED  BY <2>1, <2>2, OutcomeIs, OutcomeSet
<1>7. o = "ok" => AppliedOf[c] = 1
  <2>1. SUFFICES ASSUME "unreadable" \notin hit'[c] PROVE AppliedOf'[c] = 1
    BY <1>4, <1>5
  <2>2. In(c, url[c], "committed")' /\ Shaped(c)'
    BY <1>3, <2>1 DEF Invariant, CallOK, Known
  <2>3. url'[c] \in Urls
    BY DEF Invariant, TypeOK
  <2>4. Took(c)'
    BY <2>1, <2>2, <2>3 DEF Took, Shaped, In, Whole, Flawed
  <2> QED  BY <2>4, AppliedThen
<1> QED  BY <1>4, <1>6, <1>7 DEF Promise!Finish

(* A commit that is carried out with the statement in it applies it; a legacy *)
(* transaction whose statement failed applies nothing.                        *)
LEMMA CommitMaps ==
  ASSUME Invariant, Invariant', NEW c \in Calls, NEW n \in Nodes, ServeCommit(c, n)
  PROVE  Promise!Apply(c) \/ Unseen
<1>1. TypeOK /\ Owned /\ \A d \in Calls : CallOK(d)
  BY DEF Invariant
<1>2. Sent(c, "commit") /\ url[c].host = n /\ Names(c, url[c]) /\ url[c] \in Urls
  BY <1>1, ReachesOwn, UrlTypes DEF ServeCommit, Ops
<1>3. ret' = ret /\ hit' = hit /\ url' = url /\ expired' = expired
  BY DEF ServeCommit, clientVars, faultVars
<1>4. OutcomeOf' = OutcomeOf
  BY <1>3, OutcomeKept
<1>5. In(c, url[c], "open")
  BY <1>2 DEF In, At, Alive, ServeCommit
<1>6. \A d \in Calls \ {c} : Took(d)' <=> Took(d)
  <2>1. PICK u0 \in Urls : u0 = url[c]
    BY <1>2
  <2>2. \E state, entry : Update(u0.host, u0.id, state, entry)
    BY <1>2, <2>1 DEF ServeCommit
  <2>3. /\ \A u \in Urls : \A d : Names(d, u)' <=> Names(d, u)
        /\ \A u \in Urls : \A d : Names(d, u) /\ u # u0 => At(u)' = At(u)
    BY <1>1, <1>2, <2>1, <2>2, UpdateKeeps DEF Names
  <2>4. ASSUME NEW d \in Calls \ {c} PROVE Took(d)' <=> Took(d)
    <3>1. url[d] \in Urls /\ url'[d] = url[d]
      BY <1>1, <1>3, UrlTypes
    <3>2. Names(d, url[d]) => url[d] # u0
      BY <1>2, <2>1 DEF Names
    <3> QED  BY <2>3, <3>1, <3>2 DEF Took, In, Whole
  <2> QED  BY <2>4
<1>7. ~Took(c)
  BY <1>5 DEF Took, In
<1>8. CASE Took(c)'
  <2>1. AppliedOf[c] = 0 /\ AppliedOf' = [AppliedOf EXCEPT ![c] = 1]
    <3>1. /\ AppliedOf[c] = 0 /\ AppliedOf'[c] = 1
          /\ \A d \in Calls \ {c} : AppliedOf'[d] = AppliedOf[d]
      BY <1>6, <1>7, <1>8, AppliedIs, AppliedThen
    <3> QED  BY <3>1 DEF AppliedOf
  <2>2. OutcomeOf[c] \in {"running", "failed"}
    <3>1. ret[c] = "none" \/ ret[c] = "err"
      BY <1>1, <1>2 DEF CallOK, OnTheWay, Placed, Awaited, TypeOK
    <3> QED  BY <3>1, OutcomeIs DEF Outcome
  <2> QED  BY <1>4, <2>1, <2>2 DEF Promise!Apply
<1>9. CASE ~Took(c)'
  <2>1. \A d \in Calls : AppliedOf'[d] = AppliedOf[d]
    BY <1>6, <1>7, <1>9, AppliedIs, AppliedThen
  <2>2. AppliedOf' = AppliedOf
    BY <2>1 DEF AppliedOf
  <2> QED  BY <1>4, <2>2 DEF Unseen
<1> QED  BY <1>8, <1>9

(* Nothing else the cluster does commits anything. *)
LEMMA ServeUnseen ==
  ASSUME Invariant, Invariant', NEW c \in Calls, NEW n \in Nodes,
         ServeBegin(c, n) \/ ReplayBegin(c, n) \/ ServeExecute(c, n) \/ ServeRollback(c, n)
  PROVE  Unseen
<1>1. TypeOK /\ Owned /\ \A d \in Calls : CallOK(d)
  BY DEF Invariant
<1>2. OutcomeOf' = OutcomeOf
  <2>1. ret' = ret /\ \A d \in Calls : "unreadable" \in hit'[d] <=> "unreadable" \in hit[d]
    BY <1>1 DEF ServeBegin, ReplayBegin, ServeExecute, ServeRollback, clientVars, faultVars, Fault, TypeOK
  <2> QED  BY <2>1, OutcomeKept
<1>3. url' = url
  BY DEF ServeBegin, ReplayBegin, ServeExecute, ServeRollback, clientVars
<1>4. CASE ServeBegin(c, n) \/ ReplayBegin(c, n)
  <2>1. PICK u0 : u0 = [host |-> n, id |-> Len(log[n]) + 1]
    OBVIOUS
  <2>2. /\ u0 \in Urls /\ At(u0)' = [state |-> "open", ops |-> Begun(c)]
        /\ \A u \in Urls : \A d : Names(d, u)' <=> Names(d, u) \/ (d = c /\ u = u0)
        /\ \A u \in Urls : \A d : Names(d, u) => u # u0 /\ At(u)' = At(u)
    BY <1>1, <1>4, <2>1, OpenAdds DEF ServeBegin, ReplayBegin
  <2>3. CommittedKept
    BY <2>2 DEF CommittedKept, In
  <2> QED  BY <1>2, <1>3, <2>3, AppliedKept DEF Unseen
<1>5. CASE ServeExecute(c, n) \/ ServeRollback(c, n)
  <2>1. PICK u0 : u0 = url[c]
    OBVIOUS
  <2>2. u0 \in Urls /\ Names(c, u0) /\ u0.host = n /\ At(u0).state = "open"
    BY <1>1, <1>5, <2>1, ReachesOwn, UrlTypes DEF ServeExecute, ServeRollback, Alive, At, Ops
  <2>3. PICK state \in {"open", "closed"} : \E entry : Update(u0.host, u0.id, state, entry)
    BY <1>5, <2>1, <2>2 DEF ServeExecute, ServeRollback
  <2>4. PICK entry : Update(u0.host, u0.id, state, entry)
    BY <2>3
  <2>5. u0.host \in Nodes /\ u0.id \in Id(u0.host)
    BY <2>2 DEF Names
  <2>6. /\ At(u0)' = [state |-> state, ops |-> Append(At(u0).ops, entry)]
        /\ \A u \in Urls : \A d : Names(d, u)' <=> Names(d, u)
        /\ \A u \in Urls : \A d : Names(d, u) /\ u # u0 => At(u)' = At(u)
    BY <1>1, <2>2, <2>4, <2>5, UpdateKeeps
  <2>7. CommittedKept
    BY <2>2, <2>3, <2>6 DEF CommittedKept, In
  <2> QED  BY <1>2, <1>3, <2>7, AppliedKept DEF Unseen
<1> QED  BY <1>4, <1>5

LEMMA NothingDoneUnseen ==
  ASSUME Invariant, NEW c \in Calls, NEW op \in Ops,
         Refuse(c, op) \/ \E n \in Nodes : NotFound(c, op, n)
  PROVE  Unseen
<1>1. ret' = ret /\ log' = log
  BY DEF Refuse, NotFound, clientVars
<1>2. \A d \in Calls : "unreadable" \in hit'[d] <=> "unreadable" \in hit[d]
  <2>1. Fault(c, op) \/ hit' = hit
    BY DEF Refuse, NotFound, faultVars
  <2>2. op # "unreadable"
    BY DEF Ops
  <2> QED  BY <2>1, <2>2 DEF Fault, Invariant, TypeOK
<1> QED  BY <1>1, <1>2, OutcomeKept, AppliedByLog DEF Unseen

LEMMA ExpireUnseen ==
  ASSUME Invariant, Invariant', NEW n \in Nodes, NEW id \in Id(n), Expire(n, id)
  PROVE  Unseen
<1>1. TypeOK /\ Owned
  BY DEF Invariant
<1>2. PICK u0 : u0 = [host |-> n, id |-> id]
  OBVIOUS
<1>3. u0 \in Urls /\ u0.host \in Nodes /\ u0.id \in Id(u0.host) /\ At(u0).state = "open"
  BY <1>2 DEF Urls, Hosts, At, Expire, Alive, Id
<1> DEFINE t == [At(u0) EXCEPT !.state = "closed"]
<1>4. At(u0) \in Transactions /\ At(u0).ops # <<>>
  BY <1>1, <1>3 DEF TypeOK, Owned, At, Id
<1>5. t.ops = At(u0).ops /\ t.state = "closed"
  BY <1>4 DEF Transactions
<1>6. log' = [log EXCEPT ![u0.host] = [log[u0.host] EXCEPT ![u0.id] = t]]
  BY <1>2 DEF Expire, At
<1> HIDE DEF t
<1>7. /\ At(u0)' = t
      /\ \A u \in Urls : \A d : Names(d, u)' <=> Names(d, u)
      /\ \A u \in Urls : \A d : Names(d, u) /\ u # u0 => At(u)' = At(u)
  BY <1>1, <1>3, <1>4, <1>5, <1>6, ChangeKeeps
<1>8. CommittedKept
  BY <1>3, <1>5, <1>7 DEF CommittedKept, In
<1>9. OutcomeOf' = OutcomeOf /\ url' = url
  BY OutcomeKept DEF Expire, clientVars
<1> QED  BY <1>8, <1>9, AppliedKept DEF Unseen

LEMMA StepMaps ==
  Invariant /\ Invariant' /\ [Next]_vars => Promise!TransactionNext \/ Unseen
<1> SUFFICES ASSUME Invariant, Invariant', [Next]_vars
             PROVE  Promise!TransactionNext \/ Unseen
  OBVIOUS
<1>1. ASSUME NEW c \in Calls, CallBegin(c) \/ Client(c) \/ Deadline(c)
      PROVE  Promise!TransactionNext \/ Unseen
  BY <1>1, RunningUnseen, ErrorMaps, NilMaps DEF Client, Promise!TransactionNext
<1>2. ASSUME NEW c \in Calls, Serve(c)
      PROVE  Promise!TransactionNext \/ Unseen
  BY <1>2, CommitMaps, ServeUnseen, NothingDoneUnseen DEF Serve, Promise!TransactionNext
<1>3. ASSUME NEW n \in Nodes, NEW id \in Id(n), Expire(n, id)
      PROVE  Unseen
  BY <1>3, ExpireUnseen
<1>4. CASE UNCHANGED vars
  BY <1>4, OutcomeKept, AppliedByLog DEF vars, clientVars, faultVars, Unseen
<1> QED  BY <1>1, <1>2, <1>3, <1>4 DEF Next, Terminated, Id

(***************************************************************************)
(* For any calls, nodes and faults: what RunTransaction does and returns   *)
(* is a behaviour of Transaction.  Its statement takes effect at most      *)
(* once; a nil that could be checked means that it has; and an error does  *)
(* not mean that it will not.                                              *)
(***************************************************************************)
THEOREM ManagedTxImplementsTransaction == Spec => ImplementsTransaction
<1>1. Init => Promise!TransactionInit
  BY InitMaps
<1>2. Invariant /\ Invariant' /\ [Next]_vars
        => [Promise!TransactionNext]_(Promise!transactionVars)
  BY StepMaps DEF Promise!transactionVars, Unseen
<1> QED
  BY <1>1, <1>2, InvariantHolds, PTL DEF Spec, ImplementsTransaction, Promise!TransactionSpec

=============================================================================
