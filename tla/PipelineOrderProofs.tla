-------------------------- MODULE PipelineOrderProofs --------------------------
(***************************************************************************)
(* Blocks sent in topological order are never refused for missing parents, *)
(* for every DAG, every set of tasks and every schedule of the threads.    *)
(*                                                                         *)
(* A task moves through four places: the channel and the groups of the     *)
(* header processor, then those of the body processor, until its caller is *)
(* told.  The argument is that no task starts in a processor before every  *)
(* earlier task of a parent has left that processor.                       *)
(***************************************************************************)
EXTENDS BlockPipelineProofs

Elements(q) == {q[i] : i \in 1..Len(q)}

(* No task is twice in q. *)
Distinct(q) == \A i, j \in 1..Len(q) : q[i] \in Tasks /\ q[i] = q[j] => i = j

InChan(s) == Tasks \intersect Elements(chan[s])
InQueue(s) == {t \in Tasks : t \in Elements(queue[s][Block[t]])}
Started(s) == {t \in Tasks : /\ Block[t] \in taken[s]
                             /\ queue[s][Block[t]] # <<>>
                             /\ t = Head(queue[s][Block[t]])}
Told == {t \in Tasks : answer[t].block # "waiting"}
Refused(t) == answer[t].block \in {"missing", "rejected"}

(* t was sent before u and carries a parent of u's block. *)
Needs(t, u) ==
    /\ Block[t] \in Parents[Block[u]]
    /\ \E i, j \in 1..Len(sent) : i < j /\ sent[i] = t /\ sent[j] = u

(* No task of q is behind one that needs it. *)
InLine(q) ==
    \A i, j \in 1..Len(q) :
      i < j /\ q[i] \in Tasks /\ q[j] \in Tasks => ~ Needs(q[j], q[i])

(* A task is in one place, once, and its caller is told when it is in none. *)
OnePlace ==
    /\ \A s \in Stages : /\ Distinct(chan[s])
                         /\ \A b \in Blocks : Distinct(queue[s][b])
    /\ \A s \in Stages : \A t \in Tasks :
         /\ t \in InChan(s) => t \notin InQueue(s) /\ t \notin Told
         /\ t \in InQueue(s) => t \notin Told
    /\ \A t \in Tasks : t \in InChan("header") \/ t \in InQueue("header") =>
                          t \notin InChan("body") /\ t \notin InQueue("body")

(* Only what was sent is anywhere. *)
OnlySent ==
    \A t \in Tasks :
      t \in Told \/ (\E s \in Stages : t \in InChan(s) \/ t \in InQueue(s)) => t \in Sent

(* What a task needs stays ahead of it: in the channels, at the door of a  *)
(* processor's groups, and when a thread takes the task.                   *)
Clear(t, u) ==
    /\ \A s \in Stages : u \in InQueue(s) => t \notin InChan(s)
    /\ \A s \in Stages : u \in Started(s) => t \notin InQueue(s)
    /\ u \in InChan("body") \/ u \in InQueue("body") =>
         t \notin InChan("header") /\ t \notin InQueue("header")

Ahead ==
    /\ \A s \in Stages : InLine(chan[s])
    /\ \A t, u \in Tasks : Needs(t, u) => Clear(t, u)

(* A task that has left a processor was refused there, or its block has    *)
(* the status which that processor gives.                                  *)
Outcome ==
    \A t \in Tasks : t \in Sent /\ t \notin InChan("header") /\ t \notin InQueue("header") =>
      /\ Refused(t) \/ status[Block[t]] # "unknown"
      /\ /\ t \notin InChan("body") /\ t \notin InQueue("body")
         /\ world.kind[t] # "header_only"
         => Refused(t) \/ status[Block[t]] = "body"

(* What a verdict says while its task is taken. *)
Found ==
    \A s \in Stages, b \in Blocks :
      /\ b \notin taken[s] => verdict[s][b] = NotYet
      /\ verdict[s][b] # NotYet => verdict[s][b].result # "waiting"
      /\ s = "body" /\ verdict[s][b].result = "ok" => verdict[s][b].status = "body"
      /\ verdict[s][b].before = "body" => status[b] = "body"

(* Some parent of u's block was never sent before u, or only to be refused. *)
Deserved(u) ==
    \E p \in Parents[Block[u]] : \A t \in Tasks :
      Needs(t, u) /\ Block[t] = p /\ world.kind[t] # "header_only" => Refused(t)

(* Missing parents are found and reported only where that is so. *)
Deserving ==
    /\ \A u \in Tasks : answer[u].block = "missing" => Deserved(u)
    /\ \A s \in Stages : \A u \in Tasks :
         u \in Started(s) /\ verdict[s][Block[u]].result = "missing" => Deserved(u)

Order == OnePlace /\ OnlySent /\ Ahead /\ Outcome /\ Found /\ Deserving

---------------------------------------------------------------------------
(* Sequences. *)

(* What appending does to the elements, to distinctness and to the order. *)
LEMMA AppendOne ==
    ASSUME NEW S, NEW q \in Seq(S), NEW x \in S
    PROVE  /\ Elements(Append(q, x)) = Elements(q) \union {x}
           /\ Distinct(q) /\ (x \in Tasks => x \notin Elements(q)) => Distinct(Append(q, x))
           /\ InLine(q) /\ (x \in Tasks => \A u \in Tasks \intersect Elements(q) : ~ Needs(x, u))
                => InLine(Append(q, x))
  <1> DEFINE a == Append(q, x)
             n == Len(q)
  <1>1. /\ n \in Nat /\ Len(a) = n + 1 /\ a[n + 1] = x
        /\ \A i \in 1..n : a[i] = q[i]
      BY AppendElements
  <1>2. \A i \in 1..Len(a) : i \in 1..n \/ i = n + 1
      BY <1>1
  <1> HIDE DEF a, n
  <1>3. Elements(a) = Elements(q) \union {x}
    <2>1. \A i \in 1..n : i \in 1..Len(a)
        BY <1>1
    <2>2. n + 1 \in 1..Len(a)
        BY <1>1
    <2> QED BY <1>1, <1>2, <2>1, <2>2 DEF Elements, n
  <1>4. ASSUME Distinct(q), x \in Tasks => x \notin Elements(q)
        PROVE  Distinct(a)
    <2> SUFFICES ASSUME NEW i \in 1..Len(a), NEW j \in 1..Len(a), a[i] \in Tasks, a[i] = a[j]
                 PROVE  i = j
        BY DEF Distinct
    <2>1. CASE i \in 1..n /\ j \in 1..n
        BY <1>1, <1>4, <2>1 DEF Distinct, n
    <2>2. CASE i = n + 1 /\ j \in 1..n
        BY <1>1, <1>4, <2>2 DEF Elements, n
    <2>3. CASE i \in 1..n /\ j = n + 1
        BY <1>1, <1>4, <2>3 DEF Elements, n
    <2> QED BY <1>2, <2>1, <2>2, <2>3
  <1>5. ASSUME InLine(q), x \in Tasks => \A u \in Tasks \intersect Elements(q) : ~ Needs(x, u)
        PROVE  InLine(a)
    <2> SUFFICES ASSUME NEW i \in 1..Len(a), NEW j \in 1..Len(a), i < j,
                        a[i] \in Tasks, a[j] \in Tasks
                 PROVE  ~ Needs(a[j], a[i])
        BY DEF InLine
    <2>0. i \in 1..n
        BY <1>1, <1>2
    <2>1. CASE j \in 1..n
        BY <1>1, <1>5, <2>0, <2>1 DEF InLine, n
    <2>2. CASE j = n + 1
        BY <1>1, <1>5, <2>0, <2>2 DEF Elements, n
    <2> QED BY <1>2, <2>1, <2>2
  <1> QED BY <1>3, <1>4, <1>5 DEF a

(* What taking the head does to them. *)
LEMMA TakeHead ==
    ASSUME NEW S, NEW q \in Seq(S), q # <<>>
    PROVE  /\ Elements(q) = Elements(Tail(q)) \union {Head(q)}
           /\ Distinct(q) => Distinct(Tail(q))
           /\ Distinct(q) /\ Head(q) \in Tasks => Head(q) \notin Elements(Tail(q))
           /\ InLine(q) => InLine(Tail(q))
           /\ InLine(q) /\ Head(q) \in Tasks =>
                \A t \in Tasks \intersect Elements(Tail(q)) : ~ Needs(t, Head(q))
  <1> DEFINE a == Tail(q)
             n == Len(q)
  <1>1. /\ n \in Nat /\ Len(a) = n - 1 /\ Head(q) = q[1] /\ 1 \in 1..n
        /\ \A i \in 1..Len(a) : a[i] = q[i + 1] /\ i + 1 \in 1..n
      BY TailElements
  <1>2. \A i \in 1..n : i = 1 \/ (i - 1 \in 1..Len(a) /\ i = (i - 1) + 1)
      BY <1>1
  <1> HIDE DEF a, n
  <1>3. Elements(q) = Elements(a) \union {Head(q)}
    <2>1. ASSUME NEW i \in 1..n, i # 1 PROVE q[i] \in Elements(a)
      <3>1. i - 1 \in 1..Len(a) /\ a[i - 1] = q[i]
          BY <1>1, <1>2, <2>1
      <3> QED BY <3>1 DEF Elements
    <2>2. Elements(q) \subseteq Elements(a) \union {Head(q)}
        BY <1>1, <2>1 DEF Elements, n
    <2>3. Elements(a) \union {Head(q)} \subseteq Elements(q)
        BY <1>1 DEF Elements, n
    <2> QED BY <2>2, <2>3
  <1>4. ASSUME Distinct(q) PROVE Distinct(a)
    <2> SUFFICES ASSUME NEW i \in 1..Len(a), NEW j \in 1..Len(a), a[i] \in Tasks, a[i] = a[j]
                 PROVE  i = j
        BY DEF Distinct
    <2>1. i + 1 = j + 1
        BY <1>1, <1>4 DEF Distinct, n
    <2> QED BY <1>1, <2>1
  <1>5. ASSUME Distinct(q), Head(q) \in Tasks PROVE Head(q) \notin Elements(a)
    <2> SUFFICES ASSUME NEW i \in 1..Len(a), a[i] = Head(q) PROVE FALSE
        BY DEF Elements
    <2>1. i + 1 = 1
        BY <1>1, <1>5 DEF Distinct, n
    <2> QED BY <1>1, <2>1
  <1>6. ASSUME InLine(q) PROVE InLine(a)
    <2> SUFFICES ASSUME NEW i \in 1..Len(a), NEW j \in 1..Len(a), i < j,
                        a[i] \in Tasks, a[j] \in Tasks
                 PROVE  ~ Needs(a[j], a[i])
        BY DEF InLine
    <2>1. i + 1 < j + 1
        BY <1>1
    <2> QED BY <1>1, <1>6, <2>1 DEF InLine, n
  <1>7. ASSUME InLine(q), Head(q) \in Tasks, NEW t \in Tasks \intersect Elements(a)
        PROVE  ~ Needs(t, Head(q))
    <2>1. PICK j \in 1..Len(a) : t = a[j]
        BY <1>7 DEF Elements
    <2>2. 1 < j + 1
        BY <1>1
    <2> QED BY <1>1, <1>7, <2>1, <2>2 DEF InLine, n
  <1> QED BY <1>3, <1>4, <1>5, <1>6, <1>7 DEF a

---------------------------------------------------------------------------
(* The steps that move no task and tell no caller. *)

(* Only Send changes what a task needs. *)
LEMMA SameNeeds ==
    ASSUME sent' = sent
    PROVE  /\ \A t, u \in Tasks : Needs(t, u)' <=> Needs(t, u)
           /\ \A s \in Stages : InLine(chan[s])' <=> InLine(chan'[s])
           /\ Sent' = Sent
  <1>1. \A t, u \in Tasks : Needs(t, u)' <=> Needs(t, u)
      BY DEF Needs
  <1>2. Sent' = Sent
      BY DEF Sent
  <1> QED BY <1>1, <1>2 DEF InLine

(* A deserved refusal stays deserved: callers are told once. *)
LEMMA StillDeserved ==
    ASSUME NEW u \in Tasks, Deserved(u), world' = world,
           \A t \in Tasks : Needs(t, u)' => Needs(t, u),
           \A t \in Tasks : Refused(t) => Refused(t)'
    PROVE  Deserved(u)'
  BY DEF Deserved

(* Order is about the places, the answers and the statuses only. *)
LEMMA QuietOrder ==
    ASSUME Order,
           UNCHANGED <<world, sent, queue, taken, verdict, status>>,
           \A t \in Tasks : answer'[t].block = answer[t].block,
           \A s \in Stages : /\ InChan(s)' = InChan(s)
                             /\ Distinct(chan'[s]) /\ InLine(chan'[s])
    PROVE  Order'
  <1>1. /\ \A t, u \in Tasks : Needs(t, u)' <=> Needs(t, u)
        /\ \A s \in Stages : InLine(chan[s])'
        /\ Sent' = Sent
      BY SameNeeds
  <1>2. \A s \in Stages : InQueue(s)' = InQueue(s) /\ Started(s)' = Started(s)
      BY DEF InQueue, Started
  <1>3. Told' = Told /\ \A t \in Tasks : Refused(t)' <=> Refused(t)
      BY DEF Told, Refused
  <1>4. OnePlace'
    <2>1. \A s \in Stages : /\ Distinct(chan[s])'
                            /\ \A b \in Blocks : Distinct(queue[s][b])'
        BY DEF Order, OnePlace, Distinct
    <2> QED BY <1>2, <1>3, <2>1 DEF Order, OnePlace, Stages
  <1>5. OnlySent'
      BY <1>1, <1>2, <1>3 DEF Order, OnlySent
  <1>6. Ahead'
      BY <1>1, <1>2 DEF Order, Ahead, Clear, Stages
  <1>7. Outcome'
      BY <1>1, <1>2, <1>3 DEF Order, Outcome, Stages
  <1>8. Found'
      BY DEF Order, Found, NotYet
  <1>9. Deserving'
    <2>1. \A u \in Tasks : Deserved(u) => Deserved(u)'
        BY <1>1, <1>3, StillDeserved
    <2> QED BY <1>2, <2>1 DEF Order, Deserving
  <1> QED BY <1>4, <1>5, <1>6, <1>7, <1>8, <1>9 DEF Order

(* The part of the types used below. *)
LEMMA OrderTypes ==
    ASSUME IInv
    PROVE  \A s \in Stages : /\ chan[s] \in Seq(Tasks \union {Exit})
                             /\ \A b \in Blocks : queue[s][b] \in Seq(Tasks)
  BY DEF IInv, TypeOK, Stages

(* A task that a thread took is still in its group. *)
LEMMA StartedInQueue ==
    ASSUME IInv
    PROVE  \A s \in Stages : \A t \in Tasks : t \in Started(s) => t \in InQueue(s)
  <1> SUFFICES ASSUME NEW s \in Stages, NEW t \in Tasks, t \in Started(s)
               PROVE  t \in InQueue(s)
      OBVIOUS
  <1> DEFINE q == queue[s][Block[t]]
  <1>1. q \in Seq(Tasks) /\ q # <<>> /\ t = Head(q)
      BY OrderTypes, PipelineAssumption DEF Started
  <1> HIDE DEF q
  <1>2. t \in Elements(q)
      BY <1>1, TakeHead
  <1> QED BY <1>2 DEF InQueue, q

(* The exit message is not a task. *)
LEMMA WorkerOrder ==
    ASSUME IInv, Order, NEW s \in Stages, ReceiveExit(s) \/ Wait(s) \/ PassExit(s)
    PROVE  Order'
  <1> USE PipelineAssumption
  <1>0. UNCHANGED <<world, sent, queue, taken, verdict, status, answer>>
      BY DEF ReceiveExit, Wait, PassExit
  <1>1. \A r \in Stages : Distinct(chan[r]) /\ InLine(chan[r])
      BY DEF Order, OnePlace, Ahead
  <1>2. ASSUME NEW r \in Stages
        PROVE  InChan(r)' = InChan(r) /\ Distinct(chan'[r]) /\ InLine(chan'[r])
    <2>1. CASE chan'[r] = chan[r]
        BY <1>1, <2>1 DEF InChan
    <2>2. CASE chan[r] # <<>> /\ Head(chan[r]) = Exit /\ chan'[r] = Tail(chan[r])
      <3>1. /\ Elements(chan[r]) = Elements(Tail(chan[r])) \union {Exit}
            /\ Distinct(Tail(chan[r])) /\ InLine(Tail(chan[r]))
          BY <1>1, <2>2, OrderTypes, TakeHead
      <3> QED BY <2>2, <3>1 DEF InChan
    <2>3. CASE chan'[r] = Append(chan[r], Exit)
      <3>1. /\ Elements(Append(chan[r], Exit)) = Elements(chan[r]) \union {Exit}
            /\ Distinct(Append(chan[r], Exit)) /\ InLine(Append(chan[r], Exit))
          BY <1>1, OrderTypes, AppendOne
      <3> QED BY <2>3, <3>1 DEF InChan
    <2>4. \/ chan'[r] = chan[r]
          \/ chan[r] # <<>> /\ Head(chan[r]) = Exit /\ chan'[r] = Tail(chan[r])
          \/ chan'[r] = Append(chan[r], Exit)
        BY DEF IInv, TypeOK, ReceiveExit, Wait, PassExit, Stages, Following
    <2> QED BY <2>1, <2>2, <2>3, <2>4
  <1> QED BY <1>0, <1>2, QuietOrder

(* The virtual processor answers the other transmitter. *)
LEMMA VirtualOrder ==
    ASSUME IInv, Order, Resolve \/ ExitVirtual
    PROVE  Order'
  <1>0. UNCHANGED <<world, sent, queue, taken, verdict, status>>
      BY DEF Resolve, ExitVirtual
  <1>1. \A r \in Stages : chan'[r] = chan[r]
      BY DEF IInv, TypeOK, Resolve, ExitVirtual, Stages
  <1>2. \A r \in Stages : InChan(r)' = InChan(r) /\ Distinct(chan'[r]) /\ InLine(chan'[r])
      BY <1>1 DEF InChan, Order, OnePlace, Ahead
  <1>3. \A t \in Tasks : answer'[t].block = answer[t].block
    <2>1. CASE Resolve
      <3>1. PICK n \in 1..Len(chan["virtual"]) : Resolve!4!(n)
          BY <2>1 DEF Resolve
      <3>2. \A t \in Tasks : \/ answer'[t] = answer[t]
                             \/ answer'[t] = [answer[t] EXCEPT !.virtual = "ok"]
          BY <3>1
      <3>3. \A t \in Tasks : answer[t] \in [block : Results, virtual : Results]
          BY DEF IInv, TypeOK
      <3> QED BY <3>2, <3>3
    <2>2. CASE ExitVirtual
        BY <2>2 DEF ExitVirtual
    <2> QED BY <2>1, <2>2
  <1> QED BY <1>0, <1>2, <1>3, QuietOrder

(* A postponed job only moves a token. *)
LEMMA PostponeOrder ==
    ASSUME IInv, Order, NEW s \in Stages, NEW b \in Blocks, Postpone(s, b) \/ UNCHANGED vars
    PROVE  Order'
  <1>1. UNCHANGED <<world, sent, chan, queue, taken, verdict, status, answer>>
      BY DEF Postpone, vars
  <1>2. \A r \in Stages : InChan(r)' = InChan(r) /\ Distinct(chan'[r]) /\ InLine(chan'[r])
      BY <1>1 DEF InChan, Order, OnePlace, Ahead
  <1> QED BY <1>1, <1>2, QuietOrder

---------------------------------------------------------------------------
(* A task enters the pipeline. *)

LEMMA SendOrder ==
    ASSUME IInv, Order, NEW m \in Tasks \union {Exit}, Send(m)
    PROVE  Order'
  <1> USE PipelineAssumption
  <1>0. /\ UNCHANGED <<world, queue, taken, verdict, status, answer>>
        /\ chan'["header"] = Append(chan["header"], m) /\ chan'["body"] = chan["body"]
        /\ m \notin Sent
      BY DEF Send, IInv, TypeOK, Stages
  <1>1. Sent' = Sent \union {m}
    <2>1. sent \in Seq(Tasks \union {Exit}) /\ sent' = Append(sent, m)
        BY DEF Send, IInv, TypeOK
    <2>2. Elements(Append(sent, m)) = Elements(sent) \union {m}
        BY <2>1, AppendOne
    <2> QED BY <2>1, <2>2 DEF Sent, Elements
  <1>2. ASSUME NEW t \in Tasks, NEW u \in Tasks
        PROVE  /\ Needs(t, u) => t \in Sent /\ u \in Sent
               /\ Needs(t, u)' => Needs(t, u) \/ u = m
    <2>1. Needs(t, u) => t \in Sent /\ u \in Sent
        BY DEF Needs, Sent
    <2>2. ASSUME Needs(t, u)', u # m PROVE Needs(t, u)
      <3>1. sent \in Seq(Tasks \union {Exit}) /\ sent' = Append(sent, m)
          BY DEF Send, IInv, TypeOK
      <3>2. PICK i, j \in 1..Len(sent') : i < j /\ sent'[i] = t /\ sent'[j] = u
          BY <2>2 DEF Needs
      <3>3. j \in 1..Len(sent) /\ Len(sent') = Len(sent) + 1 /\ Len(sent) \in Nat
          BY <2>2, <3>1, <3>2, AppendElements
      <3>4. i \in 1..Len(sent)
          BY <3>2, <3>3
      <3>5. sent[i] = t /\ sent[j] = u
          BY <3>1, <3>2, <3>3, <3>4, AppendElements
      <3> QED BY <2>2, <3>2, <3>3, <3>4, <3>5 DEF Needs
    <2> QED BY <2>1, <2>2
  <1>3. /\ \A s \in Stages : InQueue(s)' = InQueue(s) /\ Started(s)' = Started(s)
        /\ Told' = Told /\ \A t \in Tasks : Refused(t)' <=> Refused(t)
      BY <1>0 DEF InQueue, Started, Told, Refused
  <1>4. /\ InChan("header")' = InChan("header") \union (Tasks \intersect {m})
        /\ InChan("body")' = InChan("body")
        /\ m \in Tasks => m \notin Elements(chan["header"])
        /\ Distinct(chan'["header"]) /\ Distinct(chan'["body"])
        /\ InLine(chan'["header"]) /\ InLine(chan'["body"])
    <2>1. chan["header"] \in Seq(Tasks \union {Exit})
        BY OrderTypes DEF Stages
    <2>2. m \in Tasks => m \notin Elements(chan["header"])
        BY <1>0 DEF Order, OnlySent, InChan, Stages
    <2>3. m \in Tasks => \A u \in Tasks \intersect Elements(chan["header"]) : ~ Needs(m, u)
        BY <1>0, <1>2
    <2>4. /\ Distinct(chan["header"]) /\ Distinct(chan["body"])
          /\ InLine(chan["header"]) /\ InLine(chan["body"])
        BY DEF Order, OnePlace, Ahead, Stages
    <2>5. /\ Elements(chan'["header"]) = Elements(chan["header"]) \union {m}
          /\ Distinct(chan'["header"]) /\ InLine(chan'["header"])
        BY <1>0, <2>1, <2>2, <2>3, <2>4, AppendOne
    <2> QED BY <1>0, <2>2, <2>4, <2>5 DEF InChan
  <1>5. \A s \in Stages : \A i, j \in 1..Len(chan'[s]) :
           i < j /\ chan'[s][i] \in Tasks => chan'[s][i] # m
    <2> SUFFICES ASSUME NEW s \in Stages, NEW i \in 1..Len(chan'[s]), NEW j \in 1..Len(chan'[s]),
                        i < j, chan'[s][i] \in Tasks
                 PROVE  chan'[s][i] # m
        OBVIOUS
    <2>1. CASE s = "body"
      <3>1. chan'[s][i] \in InChan("body")
          BY <1>0, <2>1 DEF InChan, Elements
      <3> QED BY <1>0, <3>1 DEF Order, OnlySent, Stages
    <2>2. CASE s = "header"
      <3>1. chan["header"] \in Seq(Tasks \union {Exit})
          BY OrderTypes DEF Stages
      <3>2. Len(chan'["header"]) = Len(chan["header"]) + 1 /\ Len(chan["header"]) \in Nat
          BY <1>0, <3>1, AppendElements
      <3>3. i \in 1..Len(chan["header"])
          BY <2>2, <3>2
      <3>4. chan'[s][i] \in Elements(chan["header"])
          BY <1>0, <2>2, <3>1, <3>3, AppendElements DEF Elements
      <3> QED BY <1>4, <3>4
    <2> QED BY <2>1, <2>2 DEF Stages
  <1>6. \A s \in Stages : InLine(chan[s])'
    <2>1. \A s \in Stages : InLine(chan'[s])
        BY <1>4 DEF Stages
    <2> QED BY <1>2, <1>5, <2>1 DEF InLine
  <1>7. OnePlace'
    <2>1. \A s \in Stages : /\ Distinct(chan[s])'
                            /\ \A b \in Blocks : Distinct(queue[s][b])'
        BY <1>0, <1>4 DEF Order, OnePlace, Distinct, Stages
    <2>2. m \in Tasks => /\ m \notin Told
                         /\ \A s \in Stages : m \notin InChan(s) /\ m \notin InQueue(s)
        BY <1>0 DEF Order, OnlySent
    <2> QED BY <1>3, <1>4, <2>1, <2>2 DEF Order, OnePlace, Stages
  <1>8. OnlySent'
      BY <1>1, <1>3, <1>4 DEF Order, OnlySent, Stages
  <1>9. Ahead'
    <2> SUFFICES ASSUME NEW t \in Tasks, NEW u \in Tasks, Needs(t, u)'
                 PROVE  Clear(t, u)'
        BY <1>6 DEF Ahead
    <2>1. CASE u = m
      <3>1. \A s \in Stages : u \notin InChan(s) /\ u \notin InQueue(s) /\ u \notin Started(s)
          BY <1>0, <2>1, StartedInQueue DEF Order, OnlySent
      <3> QED BY <1>3, <1>4, <3>1 DEF Clear, Stages
    <2>2. CASE u # m
      <3>1. Clear(t, u) /\ t # m
          BY <1>0, <1>2, <2>2 DEF Order, Ahead
      <3> QED BY <1>3, <1>4, <2>2, <3>1 DEF Clear, Stages
    <2> QED BY <2>1, <2>2
  <1>10. Outcome'
      BY <1>0, <1>1, <1>3, <1>4 DEF Order, Outcome, Stages
  <1>11. Found'
      BY <1>0 DEF Order, Found, NotYet
  <1>12. Deserving'
    <2>1. ASSUME NEW u \in Tasks, Deserved(u), u # m PROVE Deserved(u)'
        BY <1>0, <1>2, <1>3, <2>1, StillDeserved
    <2>2. ASSUME NEW u \in Tasks, answer'[u].block = "missing" PROVE Deserved(u)'
        BY <1>0, <2>1, <2>2 DEF Order, Deserving, OnlySent, Told
    <2>3. ASSUME NEW s \in Stages, NEW u \in Tasks, u \in Started(s)',
                 verdict'[s][Block[u]].result = "missing"
          PROVE  Deserved(u)'
        BY <1>0, <1>3, <2>1, <2>3, StartedInQueue DEF Order, Deserving, OnlySent
    <2> QED BY <2>2, <2>3 DEF Deserving
  <1> QED BY <1>7, <1>8, <1>9, <1>10, <1>11, <1>12 DEF Order

---------------------------------------------------------------------------
(* A worker registers a task: it moves from the channel to its group. *)

LEMMA RegisterMoves ==
    ASSUME IInv, Order, NEW s \in Stages, Register(s)
    PROVE  LET t == Head(chan[s])
           IN /\ t \in Tasks /\ t \in InChan(s)
              /\ InChan(s)' = InChan(s) \ {t} /\ InQueue(s)' = InQueue(s) \union {t}
              /\ \A r \in Stages \ {s} : InChan(r)' = InChan(r) /\ InQueue(r)' = InQueue(r)
              /\ \A r \in Stages : Started(r)' = Started(r)
              /\ \A r \in Stages : /\ Distinct(chan'[r]) /\ InLine(chan'[r])
                                   /\ \A b \in Blocks : Distinct(queue'[r][b])
              /\ \A u \in InChan(s)' : ~ Needs(u, t)
  <1> USE PipelineAssumption
  <1> DEFINE t == Head(chan[s])
             q == queue[s][Block[t]]
  <1>0. /\ chan[s] \in Seq(Tasks \union {Exit}) /\ chan[s] # <<>> /\ t # Exit
        /\ Distinct(chan[s]) /\ InLine(chan[s])
      BY OrderTypes DEF Register, Order, OnePlace, Ahead
  <1>1. t \in Tasks
      BY <1>0, TailElements
  <1>2. q \in Seq(Tasks) /\ Distinct(q) /\ Block[t] \in Blocks
      BY <1>1, OrderTypes DEF Order, OnePlace
  <1>3. /\ chan'[s] = Tail(chan[s]) /\ \A r \in Stages \ {s} : chan'[r] = chan[r]
        /\ queue'[s][Block[t]] = Append(q, t)
        /\ \A b \in Blocks \ {Block[t]} : queue'[s][b] = queue[s][b]
        /\ \A r \in Stages \ {s} : queue'[r] = queue[r]
        /\ taken' = taken
      BY <1>2 DEF Register, IInv, TypeOK, Stages
  <1>4. /\ Elements(chan[s]) = Elements(chan'[s]) \union {t}
        /\ t \notin Elements(chan'[s])
        /\ Distinct(chan'[s]) /\ InLine(chan'[s])
        /\ \A u \in Tasks \intersect Elements(chan'[s]) : ~ Needs(u, t)
    <2> DEFINE c == chan[s]
    <2>1. /\ c \in Seq(Tasks \union {Exit}) /\ c # <<>> /\ Distinct(c) /\ InLine(c)
          /\ Head(c) \in Tasks
        BY <1>0, <1>1
    <2> HIDE DEF c
    <2>2. /\ Elements(c) = Elements(Tail(c)) \union {Head(c)}
          /\ Head(c) \notin Elements(Tail(c))
          /\ Distinct(Tail(c)) /\ InLine(Tail(c))
        BY <2>1, TakeHead
    <2>3. \A u \in Tasks \intersect Elements(Tail(c)) : ~ Needs(u, Head(c))
        BY <2>1, TakeHead
    <2> QED BY <1>3, <2>2, <2>3 DEF c
  <1>5. t \in InChan(s) /\ InChan(s)' = InChan(s) \ {t}
      BY <1>1, <1>4 DEF InChan
  <1>6. t \notin Elements(q)
      BY <1>1, <1>5 DEF Order, OnePlace, InQueue
  <1> HIDE DEF t, q
  <1>7. Elements(Append(q, t)) = Elements(q) \union {t} /\ Distinct(Append(q, t))
      BY <1>1, <1>2, <1>6, AppendOne
  <1>8. InQueue(s)' = InQueue(s) \union {t}
    <2>1. ASSUME NEW u \in Tasks
          PROVE  u \in Elements(queue'[s][Block[u]]) <=> u \in Elements(queue[s][Block[u]]) \/ u = t
      <3>1. CASE Block[u] = Block[t]
          BY <1>3, <1>7, <3>1 DEF q
      <3>2. CASE Block[u] # Block[t]
          BY <1>3, <3>2
      <3> QED BY <3>1, <3>2
    <2> QED BY <1>1, <2>1 DEF InQueue
  <1>9. \A r \in Stages \ {s} : InChan(r)' = InChan(r) /\ InQueue(r)' = InQueue(r)
      BY <1>3 DEF InChan, InQueue
  <1>10. \A r \in Stages : Started(r)' = Started(r)
    <2>1. \A r \in Stages \ {s} : Started(r)' = Started(r)
        BY <1>3 DEF Started
    <2>2. Block[t] \in taken[s] => q # <<>>
        BY <1>2 DEF IInv, OneToken, Pending, q
    <2>3. q # <<>> => Append(q, t) # <<>> /\ Head(Append(q, t)) = Head(q)
        BY <1>1, <1>2, AppendElements
    <2>4. Started(s)' = Started(s)
        BY <1>3, <2>2, <2>3 DEF Started, q
    <2> QED BY <2>1, <2>4
  <1>11. \A r \in Stages : /\ Distinct(chan'[r]) /\ InLine(chan'[r])
                           /\ \A b \in Blocks : Distinct(queue'[r][b])
      BY <1>3, <1>4, <1>7 DEF Order, OnePlace, Ahead
  <1>12. \A u \in InChan(s)' : ~ Needs(u, t)
      BY <1>4 DEF InChan
  <1> QED BY <1>1, <1>5, <1>8, <1>9, <1>10, <1>11, <1>12 DEF t

LEMMA RegisterOrder ==
    ASSUME IInv, Order, NEW s \in Stages, Register(s)
    PROVE  Order'
  <1> DEFINE t == Head(chan[s])
  <1>0. /\ UNCHANGED <<world, sent, taken, verdict, status, answer>>
        /\ t \in Tasks /\ t \in InChan(s)
        /\ InChan(s)' = InChan(s) \ {t} /\ InQueue(s)' = InQueue(s) \union {t}
        /\ \A r \in Stages \ {s} : InChan(r)' = InChan(r) /\ InQueue(r)' = InQueue(r)
        /\ \A r \in Stages : Started(r)' = Started(r)
        /\ \A u \in InChan(s)' : ~ Needs(u, t)
      BY RegisterMoves DEF Register
  <1>1. \A r \in Stages : /\ Distinct(chan'[r]) /\ InLine(chan'[r])
                          /\ \A b \in Blocks : Distinct(queue'[r][b])
      BY RegisterMoves
  <1> HIDE DEF t
  <1>2. /\ \A u, w \in Tasks : Needs(u, w)' <=> Needs(u, w)
        /\ \A r \in Stages : InLine(chan[r])'
        /\ Sent' = Sent
      BY <1>0, <1>1, SameNeeds
  <1>3. Told' = Told /\ \A u \in Tasks : Refused(u)' <=> Refused(u)
      BY <1>0 DEF Told, Refused
  <1>4. OnePlace'
    <2>1. \A r \in Stages : /\ Distinct(chan[r])'
                            /\ \A b \in Blocks : Distinct(queue[r][b])'
        BY <1>1 DEF Distinct
    <2> QED BY <1>0, <1>3, <2>1 DEF Order, OnePlace, Stages
  <1>5. OnlySent'
      BY <1>0, <1>2, <1>3 DEF Order, OnlySent
  <1>6. Ahead'
    <2> SUFFICES ASSUME NEW u \in Tasks, NEW w \in Tasks, Needs(u, w)
                 PROVE  Clear(u, w)'
        BY <1>2 DEF Ahead
    <2>1. Clear(u, w)
        BY DEF Order, Ahead
    <2>2. w = t => u \notin InChan(s)'
        BY <1>0
    <2>3. u = t => w \notin Started(s)
        BY <1>0, <2>1, StartedInQueue DEF Clear
    <2> QED BY <1>0, <2>1, <2>2, <2>3 DEF Clear, Stages
  <1>7. Outcome'
      BY <1>0, <1>2, <1>3 DEF Order, Outcome, Stages
  <1>8. Found'
      BY <1>0 DEF Order, Found, NotYet
  <1>9. Deserving'
    <2>1. \A u \in Tasks : Deserved(u) => Deserved(u)'
        BY <1>0, <1>2, <1>3, StillDeserved
    <2> QED BY <1>0, <2>1 DEF Order, Deserving
  <1> QED BY <1>4, <1>5, <1>6, <1>7, <1>8, <1>9 DEF Order

---------------------------------------------------------------------------
(* A thread takes a task: none of what it needs is in the processor. *)

LEMMA BeginOrder ==
    ASSUME IInv, Order, NEW s \in Stages, NEW b \in Blocks, Begin(s, b)
    PROVE  Order'
  <1> USE PipelineAssumption
  <1>0. /\ UNCHANGED <<world, sent, chan, queue, verdict, status, answer>>
        /\ taken'[s] = taken[s] \union {b}
        /\ \A r \in Stages \ {s} : taken'[r] = taken[r]
        /\ PendingParents(s, b) = {}
      BY DEF Begin, IInv, TypeOK
  <1>1. b \notin taken[s] /\ verdict[s][b] = NotYet
      BY DEF Begin, IInv, OneToken, Order, Found
  <1>2. /\ \A t, u \in Tasks : Needs(t, u)' <=> Needs(t, u)
        /\ \A r \in Stages : InLine(chan[r])'
        /\ Sent' = Sent
      BY <1>0, SameNeeds DEF Order, Ahead
  <1>3. \A r \in Stages : InChan(r)' = InChan(r) /\ InQueue(r)' = InQueue(r)
      BY <1>0 DEF InChan, InQueue
  <1>4. \A r \in Stages : \A u \in Tasks :
           u \in Started(r)' => u \in Started(r) \/ (r = s /\ Block[u] = b)
      BY <1>0 DEF Started
  <1>5. Told' = Told /\ \A t \in Tasks : Refused(t)' <=> Refused(t)
      BY <1>0 DEF Told, Refused
  <1>6. OnePlace'
    <2>1. \A r \in Stages : /\ Distinct(chan[r])'
                            /\ \A x \in Blocks : Distinct(queue[r][x])'
        BY <1>0 DEF Order, OnePlace, Distinct
    <2> QED BY <1>3, <1>5, <2>1 DEF Order, OnePlace, Stages
  <1>7. OnlySent'
      BY <1>2, <1>3, <1>5 DEF Order, OnlySent
  <1>8. Ahead'
    <2> SUFFICES ASSUME NEW t \in Tasks, NEW u \in Tasks, Needs(t, u)
                 PROVE  Clear(t, u)'
        BY <1>2 DEF Ahead
    <2>1. Clear(t, u)
        BY DEF Order, Ahead
    <2>2. Block[u] = b => t \notin InQueue(s)
      <3>1. Block[u] = b => queue[s][Block[t]] = <<>>
          BY <1>0 DEF PendingParents, Pending, Needs
      <3>2. t \in InQueue(s) => queue[s][Block[t]] # <<>>
          BY DEF InQueue, Elements
      <3> QED BY <3>1, <3>2
    <2> QED BY <1>3, <1>4, <2>1, <2>2 DEF Clear, Stages
  <1>9. Outcome'
      BY <1>0, <1>2, <1>3, <1>5 DEF Order, Outcome, Stages
  <1>10. Found'
      BY <1>0 DEF Order, Found, NotYet
  <1>11. Deserving'
    <2>1. \A u \in Tasks : Deserved(u) => Deserved(u)'
        BY <1>0, <1>2, <1>5, StillDeserved
    <2>2. verdict[s][b].result # "missing"
        BY <1>1 DEF NotYet
    <2> QED BY <1>0, <1>4, <2>1, <2>2 DEF Order, Deserving
  <1> QED BY <1>6, <1>7, <1>8, <1>9, <1>10, <1>11 DEF Order

---------------------------------------------------------------------------
(* A thread reads the statuses of the parents. *)

(* What each processor may find. *)
LEMMA MissingFound ==
    ASSUME TypeOK, NEW t \in Tasks
    PROVE  /\ ProcessHeader(t).result \in {"ok", "missing", "rejected"}
           /\ ProcessHeader(t).result = "missing" =>
                \E p \in Parents[Block[t]] : status[p] = "unknown"
           /\ status[Block[t]] # "unknown" =>
                /\ ProcessBody(t).result \in {"ok", "missing", "rejected"}
                /\ ProcessBody(t).result = "ok" => ProcessBody(t).status = "body"
                /\ ProcessBody(t).result = "missing" =>
                     \E p \in Parents[Block[t]] : status[p] # "body"
  <1>1. /\ status[Block[t]] \in Statuses
        /\ \A p \in Parents[Block[t]] : status[p] \in Statuses
      BY PipelineAssumption DEF TypeOK
  <1>2. /\ ProcessHeader(t).result \in {"ok", "missing", "rejected"}
        /\ ProcessHeader(t).result = "missing" =>
              /\ Missing(Block[t], {"header", "body"})
              /\ ~ \E p \in Parents[Block[t]] : status[p] = "invalid"
      BY <1>1 DEF ProcessHeader, Statuses
  <1>3. status[Block[t]] # "unknown" =>
          /\ ProcessBody(t).result \in {"ok", "missing", "rejected"}
          /\ ProcessBody(t).result = "ok" => ProcessBody(t).status = "body"
          /\ ProcessBody(t).result = "missing" => Missing(Block[t], {"body"})
      BY <1>1 DEF ProcessBody, Statuses
  <1> QED BY <1>1, <1>2, <1>3 DEF Missing, Statuses

(* A parent without the status a started task asks for was refused each    *)
(* time it was sent before: those tasks have left the processor.           *)
LEMMA MissingDeserved ==
    ASSUME Order, NEW s \in Stages, NEW u \in Tasks, u \in Started(s), u \in InQueue(s),
           NEW p \in Parents[Block[u]],
           s = "header" => status[p] = "unknown",
           s = "body" => status[p] # "body"
    PROVE  Deserved(u)
  <1> SUFFICES ASSUME NEW t \in Tasks, Needs(t, u), Block[t] = p,
                      world.kind[t] # "header_only"
               PROVE  Refused(t)
      BY DEF Deserved
  <1>1. Clear(t, u) /\ t \in Sent
      BY DEF Order, Ahead, Needs, Sent
  <1>2. t \notin InChan(s) /\ t \notin InQueue(s)
      BY <1>1 DEF Clear
  <1>3. CASE s = "header"
      BY <1>1, <1>2, <1>3 DEF Order, Outcome
  <1>4. CASE s = "body"
      BY <1>1, <1>2, <1>4 DEF Order, Outcome, Clear
  <1> QED BY <1>3, <1>4 DEF Stages

LEMMA ProcessOrder ==
    ASSUME IInv, Order, NEW s \in Stages, NEW b \in Blocks, Process(s, b)
    PROVE  Order'
  <1> USE PipelineAssumption
  <1> DEFINE t == Head(queue[s][b])
             v == IF s = "header" THEN ProcessHeader(t) ELSE ProcessBody(t)
  <1>0. /\ UNCHANGED <<world, sent, chan, queue, taken, status, answer>>
        /\ verdict'[s][b] = [result |-> v.result, status |-> v.status, before |-> status[b]]
        /\ \A x \in Blocks \ {b} : verdict'[s][x] = verdict[s][x]
        /\ \A r \in Stages \ {s} : verdict'[r] = verdict[r]
        /\ b \in taken[s] /\ queue[s][b] # <<>> /\ TypeOK
      BY DEF Process, IInv, TypeOK
  <1>1. t \in Tasks /\ Block[t] = b
    <2>1. queue[s][b] \in Seq(Tasks)
        BY OrderTypes
    <2>2. t \in Tasks /\ t = queue[s][b][1] /\ 1 \in 1..Len(queue[s][b])
        BY <1>0, <2>1, TailElements
    <2> QED BY <2>2 DEF IInv, Grouped
  <1>2. t \in Started(s) /\ t \in InQueue(s)
    <2>1. t \in Started(s)
        BY <1>0, <1>1 DEF Started
    <2> QED BY <1>1, <2>1, StartedInQueue
  <1>3. \A u \in Tasks : u \in Started(s) /\ Block[u] = b => u = t
      BY DEF Started
  <1>4. s = "body" => status[b] # "unknown"
      BY <1>0 DEF IInv, Headed
  <1> HIDE DEF t
  <1>5. /\ v.result \in {"ok", "missing", "rejected"}
        /\ s = "body" /\ v.result = "ok" => v.status = "body"
      BY <1>0, <1>1, <1>4, MissingFound DEF Stages
  <1>6. v.result = "missing" => Deserved(t)
    <2>1. CASE s = "header"
        BY <1>0, <1>1, <1>2, <2>1, MissingFound, MissingDeserved
    <2>2. CASE s = "body"
        BY <1>0, <1>1, <1>2, <1>4, <2>2, MissingFound, MissingDeserved
    <2> QED BY <2>1, <2>2 DEF Stages
  <1> HIDE DEF v
  <1>7. /\ \A u, w \in Tasks : Needs(u, w)' <=> Needs(u, w)
        /\ \A r \in Stages : InLine(chan[r])'
        /\ Sent' = Sent
      BY <1>0, SameNeeds DEF Order, Ahead
  <1>8. \A r \in Stages : /\ InChan(r)' = InChan(r) /\ InQueue(r)' = InQueue(r)
                          /\ Started(r)' = Started(r)
      BY <1>0 DEF InChan, InQueue, Started
  <1>9. Told' = Told /\ \A u \in Tasks : Refused(u)' <=> Refused(u)
      BY <1>0 DEF Told, Refused
  <1>10. OnePlace' /\ OnlySent'
    <2>1. \A r \in Stages : /\ Distinct(chan[r])'
                            /\ \A x \in Blocks : Distinct(queue[r][x])'
        BY <1>0 DEF Order, OnePlace, Distinct
    <2>2. OnePlace'
        BY <1>8, <1>9, <2>1 DEF Order, OnePlace, Stages
    <2>3. OnlySent'
        BY <1>7, <1>8, <1>9 DEF Order, OnlySent
    <2> QED BY <2>2, <2>3
  <1>11. Ahead'
      BY <1>7, <1>8 DEF Order, Ahead, Clear, Stages
  <1>12. Outcome'
      BY <1>0, <1>7, <1>8, <1>9 DEF Order, Outcome, Stages
  <1>13. Found'
    <2> SUFFICES ASSUME NEW r \in Stages, NEW x \in Blocks
                 PROVE  Found!(r, x)'
        BY DEF Found
    <2>1. CASE r = s /\ x = b
        BY <1>0, <1>5, <2>1 DEF NotYet
    <2>2. CASE ~ (r = s /\ x = b)
      <3>1. verdict'[r][x] = verdict[r][x]
          BY <1>0, <2>2
      <3>2. Found!(r, x)
          BY DEF Order, Found
      <3> QED BY <1>0, <3>1, <3>2 DEF NotYet
    <2> QED BY <2>1, <2>2
  <1>14. Deserving'
    <2>1. \A u \in Tasks : Deserved(u) => Deserved(u)'
        BY <1>0, <1>7, <1>9, StillDeserved
    <2>2. ASSUME NEW r \in Stages, NEW u \in Tasks, u \in Started(r),
                 verdict'[r][Block[u]].result = "missing"
          PROVE  Deserved(u)
      <3>1. CASE r = s /\ Block[u] = b
        <4>1. u = t
            BY <1>3, <2>2, <3>1
        <4>2. v.result = "missing"
          <5>1. verdict'[s][b].result = v.result
              BY <1>0
          <5> QED BY <2>2, <3>1, <5>1
        <4> QED BY <1>6, <4>1, <4>2
      <3>2. CASE ~ (r = s /\ Block[u] = b)
        <4>1. verdict'[r][Block[u]] = verdict[r][Block[u]]
            BY <1>0, <3>2
        <4> QED BY <2>2, <4>1 DEF Order, Deserving
      <3> QED BY <3>1, <3>2
    <2> QED BY <1>0, <1>8, <2>1, <2>2 DEF Order, Deserving
  <1> QED BY <1>10, <1>11, <1>12, <1>13, <1>14 DEF Order

---------------------------------------------------------------------------
(* A thread ends a task: it leaves its group, for the next processor or    *)
(* with its caller told.                                                   *)

LEMMA FinishMoves ==
    ASSUME IInv, Order, NEW s \in Stages, NEW b \in Blocks, Finish(s, b)
    PROVE  LET t == Head(queue[s][b])
           IN /\ t \in Tasks /\ Block[t] = b /\ t \in Started(s) /\ t \in InQueue(s)
              /\ InQueue(s)' = InQueue(s) \ {t}
              /\ \A r \in Stages \ {s} : InQueue(r)' = InQueue(r)
              /\ \A r \in Stages : \A x \in Blocks : Distinct(queue'[r][x])
              /\ \A r \in Stages : \A u \in Tasks :
                   u \in Started(r)' => u \in Started(r) /\ ~ (r = s /\ Block[u] = b)
  <1> USE PipelineAssumption
  <1> DEFINE q == queue[s][b]
             t == Head(q)
  <1>0. /\ q \in Seq(Tasks) /\ q # <<>> /\ Distinct(q) /\ b \in taken[s]
        /\ queue'[s][b] = Tail(q)
        /\ \A x \in Blocks \ {b} : queue'[s][x] = queue[s][x]
        /\ \A r \in Stages \ {s} : queue'[r] = queue[r]
        /\ taken'[s] = taken[s] \ {b}
        /\ \A r \in Stages \ {s} : taken'[r] = taken[r]
    <2>1. /\ queue' = [queue EXCEPT ![s][b] = Tail(queue[s][b])]
          /\ taken' = [taken EXCEPT ![s] = @ \ {b}]
          /\ q # <<>> /\ b \in taken[s]
        BY DEF Finish
    <2>2. /\ queue \in [Stages -> [Blocks -> Seq(Tasks)]]
          /\ taken \in [Stages -> SUBSET Blocks]
          /\ Distinct(q)
        BY DEF IInv, TypeOK, Order, OnePlace
    <2> QED BY <2>1, <2>2
  <1>1. t \in Tasks /\ t = q[1] /\ 1 \in 1..Len(q)
      BY <1>0, TailElements
  <1>2. Block[t] = b
      BY <1>1 DEF IInv, Grouped
  <1>3. t \in Started(s)
      BY <1>0, <1>1, <1>2 DEF Started
  <1>4. t \in InQueue(s)
      BY <1>1, <1>3, StartedInQueue
  <1> HIDE DEF q
  <1>5. /\ Elements(q) = Elements(Tail(q)) \union {t} /\ t \notin Elements(Tail(q))
        /\ Distinct(Tail(q))
      BY <1>0, <1>1, TakeHead
  <1> HIDE DEF t
  <1>6. InQueue(s)' = InQueue(s) \ {t}
    <2>1. ASSUME NEW u \in Tasks
          PROVE  u \in Elements(queue'[s][Block[u]]) <=>
                   u \in Elements(queue[s][Block[u]]) /\ u # t
      <3>1. CASE Block[u] = b
          BY <1>0, <1>5, <3>1 DEF q
      <3>2. CASE Block[u] # b
          BY <1>0, <1>2, <3>2
      <3> QED BY <3>1, <3>2
    <2> QED BY <1>1, <2>1 DEF InQueue
  <1>7. \A r \in Stages \ {s} : InQueue(r)' = InQueue(r)
      BY <1>0 DEF InQueue
  <1>8. \A r \in Stages : \A x \in Blocks : Distinct(queue'[r][x])
      BY <1>0, <1>5 DEF Order, OnePlace
  <1>9. ASSUME NEW r \in Stages, NEW u \in Tasks, u \in Started(r)'
        PROVE  u \in Started(r) /\ ~ (r = s /\ Block[u] = b)
    <2>1. ~ (r = s /\ Block[u] = b)
        BY <1>0, <1>9 DEF Started
    <2>2. queue'[r][Block[u]] = queue[r][Block[u]] /\ Block[u] \in taken[r]
        BY <1>0, <1>9, <2>1 DEF Started
    <2> QED BY <1>9, <2>1, <2>2 DEF Started
  <1> QED BY <1>1, <1>2, <1>3, <1>4, <1>6, <1>7, <1>8, <1>9 DEF t, q

(* Who is told what, and where the task goes. *)
TellsCaller(s, b) ==
    \/ s = "body"
    \/ verdict[s][b].result # "ok"
    \/ world.kind[Head(queue[s][b])] = "header_only"

LEMMA FinishTells ==
    ASSUME IInv, NEW s \in Stages, NEW b \in Blocks, Finish(s, b), Head(queue[s][b]) \in Tasks
    PROVE  LET t == Head(queue[s][b])
           IN /\ \A u \in Tasks \ {t} : answer'[u] = answer[u]
              /\ chan'["header"] = chan["header"]
              /\ TellsCaller(s, b) =>
                   /\ answer'[t].block = verdict[s][b].result
                   /\ chan'["body"] = chan["body"]
              /\ ~ TellsCaller(s, b) =>
                   /\ answer'[t].block = answer[t].block
                   /\ chan'["body"] = Append(chan["body"], t)
  <1> DEFINE t == Head(queue[s][b])
             res == verdict[s][b].result
             A == Answered(s, t, res)
             new == [r \in {"block", "virtual"} |-> IF r \in A THEN res ELSE answer[t][r]]
  <1>1. /\ answer' = [answer EXCEPT ![t] = new]
        /\ chan' = IF "virtual" \in A THEN chan
                   ELSE [chan EXCEPT ![Following[s]] = Append(@, t)]
      BY DEF Finish
  <1>2. /\ "block" \in A <=> TellsCaller(s, b)
        /\ TellsCaller(s, b) => "virtual" \in A \/ Following[s] = "virtual"
        /\ ~ TellsCaller(s, b) => "virtual" \notin A /\ Following[s] = "body"
    <2>1. CASE s = "header"
        BY <2>1 DEF Answered, TellsCaller, Following
    <2>2. CASE s = "body"
        BY <2>2 DEF Answered, TellsCaller, Following
    <2> QED BY <2>1, <2>2 DEF Stages
  <1>3. /\ answer \in [Tasks -> [block : Results, virtual : Results]] /\ t \in Tasks
        /\ chan \in [Stages \union {"virtual"} -> Seq(Tasks \union {Exit})]
      BY DEF IInv, TypeOK
  <1> HIDE DEF A, t, res
  <1>4. new["block"] = IF "block" \in A THEN res ELSE answer[t].block
      OBVIOUS
  <1>5. /\ \A u \in Tasks \ {t} : answer'[u] = answer[u]
        /\ answer'[t].block = IF "block" \in A THEN res ELSE answer[t].block
    <2> HIDE DEF new
    <2> QED BY <1>1, <1>3, <1>4
  <1>6. /\ chan'["header"] = chan["header"]
        /\ TellsCaller(s, b) => chan'["body"] = chan["body"]
        /\ ~ TellsCaller(s, b) => chan'["body"] = Append(chan["body"], t)
      BY <1>1, <1>2, <1>3 DEF Stages, Following
  <1> QED BY <1>2, <1>5, <1>6 DEF t, res

LEMMA FinishOrder ==
    ASSUME IInv, Order, NEW s \in Stages, NEW b \in Blocks, Finish(s, b)
    PROVE  Order'
  <1> USE PipelineAssumption
  <1> DEFINE res == verdict[s][b].result
             told == TellsCaller(s, b)
  <1>0. PICK t \in Tasks : t = Head(queue[s][b])
      BY FinishMoves
  <1>1. /\ t \in Tasks /\ Block[t] = b /\ t \in Started(s) /\ t \in InQueue(s)
        /\ InQueue(s)' = InQueue(s) \ {t}
        /\ \A r \in Stages \ {s} : InQueue(r)' = InQueue(r)
        /\ \A r \in Stages : \A x \in Blocks : Distinct(queue'[r][x])
        /\ \A r \in Stages : \A u \in Tasks :
             u \in Started(r)' => u \in Started(r) /\ ~ (r = s /\ Block[u] = b)
      BY <1>0, FinishMoves
  <1>2. /\ \A u \in Tasks \ {t} : answer'[u] = answer[u]
        /\ chan'["header"] = chan["header"]
        /\ told => answer'[t].block = res /\ chan'["body"] = chan["body"]
        /\ ~ told => /\ answer'[t].block = answer[t].block
                     /\ chan'["body"] = Append(chan["body"], t)
      BY <1>0, <1>1, FinishTells
  <1>3. /\ world' = world /\ sent' = sent
        /\ verdict'[s][b] = NotYet
        /\ \A x \in Blocks \ {b} : verdict'[s][x] = verdict[s][x]
        /\ \A r \in Stages \ {s} : verdict'[r] = verdict[r]
        /\ taken'[s] = taken[s] \ {b} /\ \A r \in Stages \ {s} : taken'[r] = taken[r]
    <2>1. /\ UNCHANGED <<world, sent>>
          /\ verdict' = [verdict EXCEPT ![s][b] = NotYet]
          /\ taken' = [taken EXCEPT ![s] = @ \ {b}]
        BY DEF Finish
    <2>2. /\ DOMAIN verdict = Stages /\ DOMAIN verdict[s] = Blocks /\ DOMAIN taken = Stages
        BY DEF IInv, TypeOK
    <2> QED BY <2>1, <2>2
  <1>4. /\ res \in {"ok", "missing", "rejected"}
        /\ ~ told => s = "header" /\ res = "ok" /\ world.kind[t] # "header_only"
    <2>1. verdict[s][b] # NotYet
        BY DEF Finish
    <2>2. res \in Results
        BY DEF IInv, TypeOK
    <2>3. res # "waiting"
        BY <2>1 DEF Order, Found
    <2> QED BY <1>0, <2>2, <2>3 DEF Results, TellsCaller, Stages
  <1>5. told /\ res = "ok" => s = "body" \/ world.kind[t] = "header_only"
      BY <1>0 DEF TellsCaller
  <1>6. /\ \A x \in Blocks : status[x] # "unknown" => status'[x] # "unknown"
        /\ \A x \in Blocks : status[x] = "body" => status'[x] = "body"
        /\ res = "ok" => status'[b] # "unknown"
        /\ s = "body" /\ res = "ok" => status'[b] = "body"
    <2>1. s = "body" /\ res = "ok" => status'[b] = "body"
      <3>1. status' = IF Writes(verdict[s][b]) THEN [status EXCEPT ![b] = verdict[s][b].status]
                      ELSE status
          BY DEF Finish, Writes
      <3>2. /\ s = "body" /\ res = "ok" => verdict[s][b].status = "body"
            /\ verdict[s][b].before = "body" => status[b] = "body"
          BY DEF Order, Found
      <3>3. DOMAIN status = Blocks
          BY DEF IInv, TypeOK
      <3> QED BY <3>1, <3>2, <3>3 DEF Writes
    <2> QED BY <2>1, FinishWrites
  <1> HIDE DEF res, told
  <1>7. /\ \A u, w \in Tasks : Needs(u, w)' <=> Needs(u, w)
        /\ \A r \in Stages : InLine(chan[r])' <=> InLine(chan'[r])
        /\ Sent' = Sent
      BY <1>3, SameNeeds
  <1>8. /\ t \notin InChan("header") /\ t \notin InChan("body") /\ t \notin Told
        /\ \A r \in Stages \ {s} : t \notin InQueue(r)
        /\ t \in Sent
      BY <1>1 DEF Order, OnePlace, OnlySent, Stages
  <1>9. /\ InChan("header")' = InChan("header")
        /\ told => InChan("body")' = InChan("body")
        /\ ~ told => InChan("body")' = InChan("body") \union {t}
        /\ \A r \in Stages : Distinct(chan'[r]) /\ InLine(chan'[r])
    <2>1. \A r \in Stages : Distinct(chan[r]) /\ InLine(chan[r])
        BY DEF Order, OnePlace, Ahead
    <2>2. CASE told
        BY <1>2, <2>1, <2>2 DEF InChan, Stages
    <2>3. CASE ~ told
      <3>1. t \notin Elements(chan["body"])
          BY <1>1, <1>8 DEF InChan
      <3>2. \A u \in Tasks \intersect Elements(chan["body"]) : ~ Needs(t, u)
          BY <1>1, <1>4, <2>3 DEF Order, Ahead, Clear, InChan
      <3>3. chan["body"] \in Seq(Tasks \union {Exit})
          BY OrderTypes DEF Stages
      <3>4. /\ Elements(Append(chan["body"], t)) = Elements(chan["body"]) \union {t}
            /\ Distinct(Append(chan["body"], t)) /\ InLine(Append(chan["body"], t))
        <4>1. t \in Tasks \union {Exit} /\ Distinct(chan["body"]) /\ InLine(chan["body"])
            BY <1>1, <2>1 DEF Stages
        <4> QED BY <3>1, <3>2, <3>3, <4>1, AppendOne
      <3> QED BY <1>1, <1>2, <2>1, <2>3, <3>4 DEF InChan, Stages
    <2> QED BY <2>2, <2>3
  <1>10. /\ \A u \in Tasks \ {t} : /\ u \in Told' <=> u \in Told
                                   /\ Refused(u)' <=> Refused(u)
         /\ t \in Told' <=> told
         /\ Refused(t)' <=> told /\ res # "ok"
         /\ \A u \in Tasks : Refused(u) => Refused(u)'
    <2>1. /\ \A u \in Tasks \ {t} : /\ u \in Told' <=> u \in Told
                                    /\ Refused(u)' <=> Refused(u)
        BY <1>2 DEF Told, Refused
    <2>2. answer[t].block = "waiting"
        BY <1>1, <1>8 DEF Told
    <2>3. /\ t \in Told' <=> told
          /\ Refused(t)' <=> told /\ res # "ok"
        BY <1>1, <1>2, <1>4, <2>2 DEF Told, Refused
    <2>4. ~ Refused(t)
        BY <2>2 DEF Refused
    <2> QED BY <2>1, <2>3, <2>4
  <1>11. OnePlace'
    <2>1. \A r \in Stages : /\ Distinct(chan[r])'
                            /\ \A x \in Blocks : Distinct(queue[r][x])'
        BY <1>1, <1>9 DEF Distinct
    <2>2. ASSUME NEW r \in Stages, NEW u \in Tasks
          PROVE  /\ u \in InChan(r)' => u \notin InQueue(r)' /\ u \notin Told'
                 /\ u \in InQueue(r)' => u \notin Told'
        BY <1>1, <1>4, <1>8, <1>9, <1>10 DEF Order, OnePlace, Stages
    <2>3. ASSUME NEW u \in Tasks, u \in InChan("header")' \/ u \in InQueue("header")'
          PROVE  u \notin InChan("body")' /\ u \notin InQueue("body")'
        BY <1>1, <1>4, <1>8, <1>9, <2>3 DEF Order, OnePlace, Stages
    <2> QED BY <2>1, <2>2, <2>3 DEF OnePlace
  <1>12. OnlySent'
      BY <1>1, <1>7, <1>8, <1>9, <1>10 DEF Order, OnlySent, Stages
  <1>13. Ahead'
    <2> SUFFICES ASSUME NEW u \in Tasks, NEW w \in Tasks, Needs(u, w)
                 PROVE  Clear(u, w)'
        BY <1>7, <1>9 DEF Ahead
    <2>1. Clear(u, w) /\ Clear(u, w)!1 /\ Clear(u, w)!2 /\ Clear(u, w)!3
        BY DEF Order, Ahead, Clear
    <2>2. \A r \in Stages : w \in InQueue(r)' => u \notin InChan(r)'
        BY <1>1, <1>4, <1>9, <2>1 DEF Stages
    <2>3. \A r \in Stages : w \in Started(r)' => u \notin InQueue(r)'
        BY <1>1, <2>1
    <2>4. w \in InChan("body")' \/ w \in InQueue("body")' =>
            u \notin InChan("header")' /\ u \notin InQueue("header")'
      <3>1. /\ InChan("header")' = InChan("header")
            /\ u \in InQueue("header")' => u \in InQueue("header")
            /\ w \in InQueue("body")' => w \in InQueue("body")
          BY <1>1, <1>9 DEF Stages
      <3>2. w \in InChan("body")' => w \in InChan("body") \/ (w = t /\ s = "header")
          BY <1>4, <1>9
      <3>3. w = t /\ s = "header" => u \notin InChan("header") /\ u \notin InQueue("header")
          BY <1>1, <2>1
      <3> QED BY <2>1, <3>1, <3>2, <3>3
    <2> QED BY <2>2, <2>3, <2>4 DEF Clear
  <1>14. Outcome'
    <2> SUFFICES ASSUME NEW u \in Tasks, u \in Sent,
                        u \notin InChan("header")', u \notin InQueue("header")'
                 PROVE  /\ Refused(u)' \/ status'[Block[u]] # "unknown"
                        /\ /\ u \notin InChan("body")' /\ u \notin InQueue("body")'
                           /\ world.kind[u] # "header_only"
                           => Refused(u)' \/ status'[Block[u]] = "body"
        BY <1>3, <1>7 DEF Outcome
    <2>1. CASE u = t
        BY <1>1, <1>4, <1>5, <1>6, <1>9, <1>10, <2>1
    <2>2. CASE u # t
      <3>1. /\ u \notin InChan("header") /\ u \notin InQueue("header")
            /\ u \notin InChan("body")' => u \notin InChan("body")
            /\ u \notin InQueue("body")' => u \notin InQueue("body")
          BY <1>1, <1>9, <2>2 DEF Stages
      <3>2. Block[u] \in Blocks
          OBVIOUS
      <3> QED BY <1>6, <1>10, <3>1, <3>2 DEF Order, Outcome
    <2> QED BY <2>1, <2>2
  <1>15. Found'
    <2> SUFFICES ASSUME NEW r \in Stages, NEW x \in Blocks
                 PROVE  Found!(r, x)'
        BY DEF Found
    <2>1. CASE r = s /\ x = b
      <3>1. verdict'[r][x] = NotYet
          BY <1>3, <2>1
      <3> QED BY <3>1 DEF NotYet
    <2>2. CASE ~ (r = s /\ x = b)
      <3>1. verdict'[r][x] = verdict[r][x] /\ (x \notin taken'[r] => x \notin taken[r])
          BY <1>3, <2>2
      <3>2. Found!(r, x)
          BY DEF Order, Found
      <3> QED BY <1>6, <3>1, <3>2 DEF NotYet
    <2> QED BY <2>1, <2>2
  <1>16. Deserving'
    <2>1. \A u \in Tasks : Deserved(u) => Deserved(u)'
        BY <1>3, <1>7, <1>10, StillDeserved
    <2>2. ASSUME NEW u \in Tasks, answer'[u].block = "missing"
          PROVE  Deserved(u)
      <3>1. CASE u = t /\ told
          BY <1>1, <1>2, <2>2, <3>1 DEF Order, Deserving, res
      <3>2. CASE ~ (u = t /\ told)
          BY <1>1, <1>2, <2>2, <3>2 DEF Order, Deserving
      <3> QED BY <3>1, <3>2
    <2>3. ASSUME NEW r \in Stages, NEW u \in Tasks, u \in Started(r)',
                 verdict'[r][Block[u]].result = "missing"
          PROVE  Deserved(u)
      <3>1. u \in Started(r) /\ verdict'[r][Block[u]] = verdict[r][Block[u]]
          BY <1>1, <1>3, <2>3
      <3> QED BY <2>3, <3>1 DEF Order, Deserving
    <2> QED BY <2>1, <2>2, <2>3 DEF Deserving
  <1> QED BY <1>11, <1>12, <1>13, <1>14, <1>15, <1>16 DEF Order

---------------------------------------------------------------------------

(* The pipeline starts empty. *)
LEMMA OrderInit == Init => Order
  <1> SUFFICES ASSUME Init PROVE Order
      OBVIOUS
  <1> USE PipelineAssumption
  <1>1. \A s \in Stages : /\ chan[s] = <<>> /\ taken[s] = {}
                          /\ \A b \in Blocks : queue[s][b] = <<>> /\ verdict[s][b] = NotYet
      BY DEF Init, Stages
  <1>2. /\ \A t \in Tasks : answer[t].block = "waiting"
        /\ sent = <<>>
      BY DEF Init
  <1>3. Elements(<<>>) = {} /\ Distinct(<<>>) /\ InLine(<<>>)
      BY DEF Elements, Distinct, InLine
  <1>4. \A s \in Stages : InChan(s) = {} /\ InQueue(s) = {} /\ Started(s) = {}
      BY <1>1, <1>3 DEF InChan, InQueue, Started
  <1>5. Told = {} /\ Sent = {}
      BY <1>2 DEF Told, Sent
  <1>6. OnePlace /\ OnlySent
      BY <1>1, <1>3, <1>4, <1>5 DEF OnePlace, OnlySent, Stages
  <1>7. Ahead
      BY <1>1, <1>3, <1>4 DEF Ahead, Clear, Stages
  <1>8. Outcome
      BY <1>5 DEF Outcome
  <1>9. Found
      BY <1>1 DEF Found, NotYet
  <1>10. Deserving
      BY <1>2, <1>4 DEF Deserving
  <1> QED BY <1>6, <1>7, <1>8, <1>9, <1>10 DEF Order

(* Every step keeps the order. *)
LEMMA OrderInductive == IInv /\ Order /\ [Next]_vars => Order'
  <1> SUFFICES ASSUME IInv, Order, [Next]_vars
               PROVE  Order'
      OBVIOUS
  <1>1. CASE \E m \in Tasks \union {Exit} : Send(m)
      BY <1>1, SendOrder
  <1>2. ASSUME NEW s \in Stages, Worker(s)
        PROVE  Order'
      BY <1>2, RegisterOrder, WorkerOrder DEF Worker
  <1>3. ASSUME NEW s \in Stages, NEW b \in Blocks, Thread(s, b)
        PROVE  Order'
      BY <1>3, BeginOrder, PostponeOrder, ProcessOrder, FinishOrder DEF Thread
  <1>4. CASE Resolve \/ ExitVirtual
      BY <1>4, VirtualOrder
  <1>5. CASE UNCHANGED vars
      BY <1>5, PostponeOrder, PipelineAssumption DEF Stages
  <1> QED BY <1>1, <1>2, <1>3, <1>4, <1>5 DEF Next, System

(* A block is refused for missing parents only where some parent's body    *)
(* was never sent before it, or was itself refused each time: for every    *)
(* DAG, every mix of tasks and every schedule of workers and pool threads, *)
(* the two dependency managers keep a block behind the parents that were   *)
(* sent first.                                                             *)
THEOREM SentInOrderIsNeverMissing == Spec => []InOrderNeverMissing
  <1>1. Order /\ TypeOK => InOrderNeverMissing
    <2> SUFFICES ASSUME Order, TypeOK, NEW i \in 1..Len(sent), sent[i] # Exit,
                        answer[sent[i]].block = "missing"
                 PROVE  \E p \in Parents[Block[sent[i]]] : \A j \in 1..(i - 1) :
                          sent[j] # Exit /\ Block[sent[j]] = p
                              /\ world.kind[sent[j]] # "header_only"
                            => answer[sent[j]].block \in {"missing", "rejected"}
        BY DEF InOrderNeverMissing
    <2>1. /\ \A j \in 1..Len(sent) : sent[j] # Exit => sent[j] \in Tasks
          /\ Len(sent) \in Nat
        BY DEF TypeOK
    <2>2. Deserved(sent[i])
        BY <2>1 DEF Order, Deserving
    <2>3. PICK p \in Parents[Block[sent[i]]] : \A t \in Tasks :
             Needs(t, sent[i]) /\ Block[t] = p /\ world.kind[t] # "header_only" => Refused(t)
        BY <2>2 DEF Deserved
    <2>4. ASSUME NEW j \in 1..(i - 1), sent[j] # Exit, Block[sent[j]] = p,
                 world.kind[sent[j]] # "header_only"
          PROVE  answer[sent[j]].block \in {"missing", "rejected"}
      <3>1. j \in 1..Len(sent) /\ j < i
          BY <2>1
      <3>2. sent[j] \in Tasks /\ Needs(sent[j], sent[i])
          BY <2>1, <2>3, <2>4, <3>1 DEF Needs
      <3> QED BY <2>3, <2>4, <3>2 DEF Refused
    <2> QED BY <2>3, <2>4
  <1>2. IInv => TypeOK
      BY DEF IInv
  <1> QED BY <1>1, <1>2, OrderInit, OrderInductive, Invariance, PTL DEF Spec
================================================================================
