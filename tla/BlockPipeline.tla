----------------------------- MODULE BlockPipeline -----------------------------
(***************************************************************************)
(* The block processing pipeline: the header and the body processor, each  *)
(* a receiving worker, a BlockTaskDependencyManager and a thread pool, and *)
(* the virtual processor's channel behind them.                            *)
(*                                                                         *)
(* A task is one call of validate_and_insert_block (or of its trusted      *)
(* form) and a pool job one queue_block closure.  A job and an entry of a  *)
(* dependent_tasks list both name a block hash; the model keeps them in    *)
(* sets and records in "faults" the moment one would be there twice, so    *)
(* the sets lose nothing.  faults also records every panic the code        *)
(* guards with expect, assert or unwrap.                                   *)
(***************************************************************************)
EXTENDS Naturals, Sequences, FiniteSets

CONSTANTS
    Blocks, Root, Parents,
    Tasks, Block,      \* Block[t]: the block that task t carries
    Worlds,            \* what callers may send and validation may find
    Exit               \* the exit message

ASSUME PipelineAssumption ==
    /\ Root \in Blocks
    /\ Parents \in [Blocks -> SUBSET Blocks]
    /\ Block \in [Tasks -> Blocks \ {Root}]
    /\ Worlds \subseteq [kind : [Tasks -> {"ordinary", "trusted", "header_only"}],
                         verdict : [Blocks -> {"valid", "bad_pow", "bad_header", "bad_body"}],
                         wrong : SUBSET Tasks]
    /\ Exit \notin Tasks

VARIABLES
    world,     \* the kind of each task, what validating each block finds, and
               \* the tasks whose transactions miss the merkle root
    sent,      \* everything sent to the pipeline so far, in order
    chan,      \* the receiving channel of each processor
    worker,    \* where each processor's worker thread is
    queue,     \* TaskQueue of each pending hash; <<>> is no pending group
    deps,      \* dependent_tasks of each pending group
    jobs,      \* hashes whose queue_block job waits for a pool thread
    taken,     \* hashes whose front task try_begin took
    verdict,   \* what processing a taken task found, before it is committed
    status,    \* statuses_store
    answer,    \* what the two result transmitters of each task carried
    faults

vars ==
    <<world, sent, chan, worker, queue, deps, jobs, taken, verdict, status, answer, faults>>

Stages == {"header", "body"}
Following == [header |-> "body", body |-> "virtual"]
Pending(s) == {b \in Blocks : queue[s][b] # <<>>}

NotYet == [result |-> "waiting", status |-> "unknown", before |-> "unknown"]

Init ==
    /\ world \in Worlds
    /\ sent = <<>>
    /\ chan = [s \in Stages \union {"virtual"} |-> <<>>]
    /\ worker = [s \in Stages \union {"virtual"} |-> "receiving"]
    /\ queue = [s \in Stages |-> [b \in Blocks |-> <<>>]]
    /\ deps = [s \in Stages |-> [b \in Blocks |-> {}]]
    /\ jobs = [s \in Stages |-> {}]
    /\ taken = [s \in Stages |-> {}]
    /\ verdict = [s \in Stages |-> [b \in Blocks |-> NotYet]]
    /\ status = [b \in Blocks |-> IF b = Root THEN "body" ELSE "unknown"]
    /\ answer = [t \in Tasks |-> [block |-> "waiting", virtual |-> "waiting"]]
    /\ faults = {}

---------------------------------------------------------------------------
(* validate_and_insert_block_impl and signal_exit.  What is sent behind    *)
(* the exit message is never received, and is left out.                    *)

Sent == {sent[i] : i \in 1..Len(sent)}

Send(m) ==
    /\ {m, Exit} \intersect Sent = {}
    /\ sent' = Append(sent, m)
    /\ chan' = [chan EXCEPT !["header"] = Append(@, m)]
    /\ UNCHANGED <<world, worker, queue, deps, jobs, taken, verdict, status, answer, faults>>

---------------------------------------------------------------------------
(* The receiving worker. *)

Bug_RegisterAlways(s) ==
    /\ worker[s] = "receiving"
    /\ chan[s] # <<>>
    /\ Head(chan[s]) # Exit
    /\ LET t == Head(chan[s])
           b == Block[t]
       IN /\ queue' = [queue EXCEPT ![s][b] = Append(@, t)]
          /\ jobs' = [jobs EXCEPT ![s] = @ \union {b}]
          /\ faults' = faults \union IF b \in jobs[s] THEN {"duplicate"} ELSE {}
    /\ chan' = [chan EXCEPT ![s] = Tail(@)]
    /\ UNCHANGED <<world, sent, worker, deps, taken, verdict, status, answer>>

(* register: only the first task of a hash is given a job. *)
Register(s) ==
    /\ worker[s] = "receiving"
    /\ chan[s] # <<>>
    /\ Head(chan[s]) # Exit
    /\ LET t == Head(chan[s])
           b == Block[t]
           new == {b} \ Pending(s)
       IN /\ queue' = [queue EXCEPT ![s][b] = Append(@, t)]
          /\ jobs' = [jobs EXCEPT ![s] = @ \union new]
          /\ faults' = faults \union IF new \intersect jobs[s] # {} THEN {"duplicate"} ELSE {}
    /\ chan' = [chan EXCEPT ![s] = Tail(@)]
    /\ UNCHANGED <<world, sent, worker, deps, taken, verdict, status, answer>>

ReceiveExit(s) ==
    /\ worker[s] = "receiving"
    /\ chan[s] # <<>>
    /\ Head(chan[s]) = Exit
    /\ chan' = [chan EXCEPT ![s] = Tail(@)]
    /\ worker' = [worker EXCEPT ![s] = "exiting"]
    /\ UNCHANGED <<world, sent, queue, deps, jobs, taken, verdict, status, answer, faults>>

(* wait_for_idle, where the worker blocks on the condition variable. *)
Wait(s) ==
    /\ worker[s] = "exiting"
    /\ Pending(s) # {}
    /\ worker' = [worker EXCEPT ![s] = "waiting"]
    /\ UNCHANGED <<world, sent, chan, queue, deps, jobs, taken, verdict, status, answer, faults>>

Bug_PassExitAtOnce(s) ==
    /\ worker[s] = "exiting"
    /\ worker' = [worker EXCEPT ![s] = "closed"]
    /\ chan' = [chan EXCEPT ![Following[s]] = Append(@, Exit)]
    /\ UNCHANGED <<world, sent, queue, deps, jobs, taken, verdict, status, answer, faults>>

(* The worker found nothing pending, or was woken: it does not look again. *)
PassExit(s) ==
    /\ \/ worker[s] = "exiting" /\ Pending(s) = {}
       \/ worker[s] = "woken"
    /\ worker' = [worker EXCEPT ![s] = "closed"]
    /\ chan' = [chan EXCEPT ![Following[s]] = Append(@, Exit)]
    /\ UNCHANGED <<world, sent, queue, deps, jobs, taken, verdict, status, answer, faults>>

---------------------------------------------------------------------------
(* queue_block, on a pool thread. *)

Bug_NoParentCheck(s, b) == {}

PendingParents(s, b) == Parents[b] \intersect Pending(s)

BeginFaults(s, b) ==
    (IF queue[s][b] = <<>> THEN {"no task group"} ELSE {})
      \union (IF b \in taken[s] THEN {"task is taken"} ELSE {})

(* try_begin, when the front task may run. *)
Begin(s, b) ==
    /\ b \in jobs[s]
    /\ PendingParents(s, b) = {}
    /\ jobs' = [jobs EXCEPT ![s] = @ \ {b}]
    /\ taken' = [taken EXCEPT ![s] = @ \union {b}]
    /\ faults' = faults \union BeginFaults(s, b)
    /\ UNCHANGED <<world, sent, chan, worker, queue, deps, verdict, status, answer>>

(* try_begin, when a parent is pending: which one is the first depends on  *)
(* the order of the header's parents, which the model leaves open.         *)
Postpone(s, b) ==
    /\ b \in jobs[s]
    /\ jobs' = [jobs EXCEPT ![s] = @ \ {b}]
    /\ \E p \in PendingParents(s, b) :
          /\ deps' = [deps EXCEPT ![s][p] = @ \union {b}]
          /\ faults' = faults \union BeginFaults(s, b)
                         \union IF b \in deps[s][p] THEN {"duplicate"} ELSE {}
    /\ UNCHANGED <<world, sent, chan, worker, queue, taken, verdict, status, answer>>

Missing(b, has) == \E p \in Parents[b] : status[p] \notin has

Bug_Revalidate(t) == [result |-> "ok", status |-> "header"]

(* process_header up to commit_header: the result, and the status the      *)
(* block is to get.                                                        *)
ProcessHeader(t) ==
    LET b == Block[t]
        found(res, st) == [result |-> res, status |-> st]
    IN CASE status[b] = "invalid" -> found("rejected", "invalid")
         [] status[b] \in {"header", "body"} -> found("ok", status[b])
         [] status[b] = "unknown" ->
              IF world.verdict[b] = "bad_pow" THEN found("rejected", "unknown")
              ELSE IF world.kind[t] = "trusted" THEN found("ok", "header")
              ELSE IF \E p \in Parents[b] : status[p] = "invalid"
                   THEN found("rejected", "unknown")
              ELSE IF Missing(b, {"header", "body"}) THEN found("missing", "unknown")
              ELSE IF world.verdict[b] = "bad_header" THEN found("rejected", "invalid")
              ELSE found("ok", "header")

(* process_body up to commit_body. *)
ProcessBody(t) ==
    LET b == Block[t]
        found(res, st) == [result |-> res, status |-> st]
    IN CASE status[b] = "invalid" -> found("rejected", "invalid")
         [] status[b] = "body" -> found("ok", "body")
         [] status[b] = "header" ->
              IF t \in world.wrong THEN found("rejected", "header")
              ELSE IF world.verdict[b] = "bad_body" THEN found("rejected", "invalid")
              ELSE IF world.kind[t] = "ordinary" /\ Missing(b, {"body"})
                   THEN found("missing", "header")
              ELSE found("ok", "body")
         [] status[b] = "unknown" -> found("panic", "unknown")

Process(s, b) ==
    /\ b \in taken[s]
    /\ verdict[s][b] = NotYet
    /\ queue[s][b] # <<>>
    /\ LET t == Head(queue[s][b])
           v == IF s = "header" THEN ProcessHeader(t) ELSE ProcessBody(t)
       IN /\ verdict' = [verdict EXCEPT ![s][b] = [result |-> v.result, status |-> v.status,
                                                  before |-> status[b]]]
          /\ faults' = faults \union IF v.result = "panic" THEN {"unexpected status"} ELSE {}
    /\ UNCHANGED <<world, sent, chan, worker, queue, deps, jobs, taken, status, answer>>

(* The part of end that decides what is queued next: the same hash while   *)
(* its group has tasks left, otherwise the tasks that waited for it.       *)
Bug_DependentsOnly(s, b) == deps[s][b]

Requeued(s, b) == IF Len(queue[s][b]) > 1 THEN {b} ELSE deps[s][b]

(* notify_one: the group that ends was the last one pending. *)
Bug_CheckedBeforeRemoval(s, b) == Pending(s) = {}

LastPending(s, b) == Pending(s) = {b} /\ Len(queue[s][b]) = 1

(* The callbacks: which of the two transmitters of t the stage answers. *)
Answered(s, t, res) ==
    IF s = "header"
      THEN IF res # "ok" \/ world.kind[t] = "header_only" THEN {"block", "virtual"} ELSE {}
      ELSE IF res # "ok" \/ world.kind[t] = "trusted" THEN {"block", "virtual"} ELSE {"block"}

(* commit_header, commit_body or the StatusInvalid mark, then end: the     *)
(* front task leaves, its callers are answered or it is passed on, the     *)
(* next jobs are spawned and an idle waiter is woken.                      *)
Finish(s, b) ==
    LET t == Head(queue[s][b])
        v == verdict[s][b]
        res == v.result
        writes == v.status # v.before
        next == Requeued(s, b)
        left == Tail(queue[s][b])
    IN /\ b \in taken[s]
       /\ v # NotYet
       /\ queue[s][b] # <<>>
       /\ status' = IF writes THEN [status EXCEPT ![b] = v.status] ELSE status
       /\ answer' = [answer EXCEPT ![t] = [r \in {"block", "virtual"} |->
                        IF r \in Answered(s, t, res) THEN res ELSE @[r]]]
       /\ chan' = IF "virtual" \in Answered(s, t, res) THEN chan
                  ELSE [chan EXCEPT ![Following[s]] = Append(@, t)]
       /\ queue' = [queue EXCEPT ![s][b] = left]
       /\ deps' = IF left = <<>> THEN [deps EXCEPT ![s][b] = {}] ELSE deps
       /\ jobs' = [jobs EXCEPT ![s] = @ \union next]
       /\ taken' = [taken EXCEPT ![s] = @ \ {b}]
       /\ verdict' = [verdict EXCEPT ![s][b] = NotYet]
       /\ worker' = IF worker[s] = "waiting" /\ LastPending(s, b)
                      THEN [worker EXCEPT ![s] = "woken"] ELSE worker
       /\ faults' = faults
             \union (IF next \intersect jobs[s] # {} THEN {"duplicate"} ELSE {})
             \union (IF writes /\ v.status # "invalid" /\ status[b] # v.before
                       THEN {"hash already exists"} ELSE {})
       /\ UNCHANGED <<world, sent>>

---------------------------------------------------------------------------
(* The virtual processor's worker: it drains what has arrived, resolves    *)
(* the virtual state once (VirtualProcessor) and answers the drained       *)
(* tasks in order, stopping at an exit message.                            *)
Resolve ==
    /\ worker["virtual"] = "receiving"
    /\ chan["virtual"] # <<>>
    /\ Head(chan["virtual"]) # Exit
    /\ \E n \in 1..Len(chan["virtual"]) :
          LET batch == SubSeq(chan["virtual"], 1, n)
              reached == {i \in 1..n : \A j \in 1..i : batch[j] # Exit}
          IN /\ answer' = [t \in Tasks |-> IF \E i \in reached : batch[i] = t
                              THEN [answer[t] EXCEPT !.virtual = "ok"] ELSE answer[t]]
             /\ chan' = [chan EXCEPT !["virtual"] = SubSeq(@, n + 1, Len(@))]
             /\ worker' = IF reached # 1..n THEN [worker EXCEPT !["virtual"] = "closed"]
                          ELSE worker
    /\ UNCHANGED <<world, sent, queue, deps, jobs, taken, verdict, status, faults>>

ExitVirtual ==
    /\ worker["virtual"] = "receiving"
    /\ chan["virtual"] # <<>>
    /\ Head(chan["virtual"]) = Exit
    /\ chan' = [chan EXCEPT !["virtual"] = Tail(@)]
    /\ worker' = [worker EXCEPT !["virtual"] = "closed"]
    /\ UNCHANGED <<world, sent, queue, deps, jobs, taken, verdict, status, answer, faults>>

Worker(s) == Register(s) \/ ReceiveExit(s) \/ Wait(s) \/ PassExit(s)

Thread(s, b) == Begin(s, b) \/ Postpone(s, b) \/ Process(s, b) \/ Finish(s, b)

System ==
    \/ \E s \in Stages : Worker(s)
    \/ \E s \in Stages, b \in Blocks : Thread(s, b)
    \/ Resolve
    \/ ExitVirtual

Next == System \/ \E m \in Tasks \union {Exit} : Send(m)

Spec == Init /\ [][Next]_vars

(* Some thread that can run does: the processors' threads take no step     *)
(* that could be repeated for ever, so nothing stronger is needed.         *)
FairSpec == Spec /\ WF_vars(System)

---------------------------------------------------------------------------
Results == {"waiting", "ok", "missing", "rejected"}
Statuses == {"unknown", "header", "body", "invalid"}

(* Every variable has its type. *)
TypeOK ==
    /\ world \in Worlds
    /\ sent \in Seq(Tasks \union {Exit})
    /\ chan \in [Stages \union {"virtual"} -> Seq(Tasks \union {Exit})]
    /\ worker \in [Stages \union {"virtual"} ->
                     {"receiving", "exiting", "waiting", "woken", "closed"}]
    /\ queue \in [Stages -> [Blocks -> Seq(Tasks)]]
    /\ deps \in [Stages -> [Blocks -> SUBSET Blocks]]
    /\ jobs \in [Stages -> SUBSET Blocks]
    /\ taken \in [Stages -> SUBSET Blocks]
    /\ verdict \in [Stages -> [Blocks ->
                      [result : Results, status : Statuses, before : Statuses]]]
    /\ status \in [Blocks -> Statuses]
    /\ answer \in [Tasks -> [block : Results, virtual : Results]]

(* Nothing the processors expect, assert or unwrap fails: a job finds its  *)
(* group with an untaken task, no hash is queued twice, the body processor *)
(* never meets a block without a header, and nothing is inserted twice in  *)
(* an append-only store.                                                   *)
NoPanic == faults = {}

(* Exactly one token moves each pending group: a pool job, a thread that   *)
(* took its task, or one entry in the dependents of a pending parent.      *)
OneToken ==
    \A s \in Stages :
      /\ Pending(s) = jobs[s] \union taken[s] \union UNION {deps[s][p] : p \in Pending(s)}
      /\ jobs[s] \intersect taken[s] = {}
      /\ \A p \in Blocks :
            /\ deps[s][p] \intersect (jobs[s] \union taken[s]) = {}
            /\ \A q \in Blocks \ {p} : deps[s][p] \intersect deps[s][q] = {}
            /\ deps[s][p] # {} => p \in Pending(s)

(* A block is refused for missing parents only when it deserves it: some   *)
(* parent's body was never sent before it, or each one sent was itself     *)
(* refused.  Blocks sent in topological order need no retry, however the   *)
(* pool schedules them.                                                    *)
InOrderNeverMissing ==
    \A i \in 1..Len(sent) :
      sent[i] # Exit /\ answer[sent[i]].block = "missing" =>
        \E p \in Parents[Block[sent[i]]] : \A j \in 1..(i - 1) :
          sent[j] # Exit /\ Block[sent[j]] = p /\ world.kind[sent[j]] # "header_only"
            => answer[sent[j]].block \in {"missing", "rejected"}

(* A processor hands the exit message on when it is idle, once: behind it  *)
(* no task is ever sent, so no task is dropped unanswered by a shutdown.   *)
ExitIsLast ==
    \A s \in Stages :
      /\ worker[s] = "closed" => Pending(s) = {}
      /\ \A i \in 1..Len(chan[Following[s]]) :
            chan[Following[s]][i] = Exit => i = Len(chan[Following[s]]) /\ worker[s] = "closed"

(* A block status only advances: a committed header or body is not taken   *)
(* back and an invalid mark is final, whatever tasks of the same block     *)
(* follow or run in the other processor.                                   *)
Advances ==
    [][\A b \in Blocks : status'[b] # status[b] =>
         <<status[b], status'[b]>> \in {<<"unknown", "header">>, <<"unknown", "invalid">>,
                                        <<"header", "body">>, <<"header", "invalid">>}]_vars

(* Every task sent before the exit message has both of its transmitters    *)
(* answered, and an exit message closes all three processors.              *)
EveryCallReturns ==
    /\ \A t \in Tasks :
         t \in Sent /\ Exit \notin Sent
           ~> answer[t].block # "waiting" /\ answer[t].virtual # "waiting"
    /\ Exit \in Sent ~> \A s \in Stages \union {"virtual"} : worker[s] = "closed"
================================================================================
