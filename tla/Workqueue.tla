----------------------------- MODULE Workqueue ------------------------------
(***************************************************************************)
(* Workqueues, sys/kern/subr_workqueue.c: a list of works per CPU, or one  *)
(* for all, and a thread for each that takes the whole list and calls the  *)
(* client's function for each work of it.  The works are linked through    *)
(* themselves, and a work may be enqueued again as soon as the function is *)
(* called for it.  What runs under a q_mutex is a step.                    *)
(***************************************************************************)
EXTENDS Integers, Sequences

CONSTANTS
    Queue,          \* the struct workqueue_queue objects
    Work,           \* the works of the client
    wqe,            \* the one on the stack of workqueue_finiqueue
    Nil             \* NULL; and, as a place to store to, &sqh_first

\* NULL, the work of workqueue_finiqueue and those of the client differ.
ASSUME WorkqueueAssumption ==
    /\ wqe \notin Work
    /\ Nil \notin Work \cup Queue \cup {wqe, "client", "exit"}

VARIABLES
    wq_func,        \* NULL before creation, "client" or "exit"
    q_worker,       \* whether each queue has a worker
    sqh_first, sqh_last,
    wk_entry,       \* the next work of each work
    worker,         \* where each worker is
    wk, nxt,        \* its work in workqueue_runlist, and the next one
    owner,          \* where the LWP that creates and destroys is
    todo,           \* the queues it has still to create or to finish
    fq,             \* the one it finishes
    waiting         \* the works enqueued at each queue and not yet begun

queues == <<sqh_first, sqh_last, wk_entry>>
workers == <<worker, wk, nxt>>
wqvars == <<wq_func, q_worker, queues, workers, owner, todo, fq, waiting>>

WqInit == /\ wq_func = Nil
          /\ q_worker = [i \in Queue |-> FALSE]
          /\ sqh_first = [i \in Queue |-> Nil]
          /\ sqh_last = [i \in Queue |-> Nil]
          /\ wk_entry = [w \in Work \cup {wqe} |-> Nil]
          /\ worker = [i \in Queue |-> "gone"]
          /\ wk = [i \in Queue |-> Nil]
          /\ nxt = [i \in Queue |-> Nil]
          /\ owner = "out" /\ todo = {} /\ fq = Nil
          /\ waiting = [i \in Queue |-> <<>>]

SIMPLEQ_INSERT_TAIL(i, w) ==
    LET last == sqh_last[i] IN
    /\ wk_entry' = [v \in Work \cup {wqe} |->
                       IF v = w THEN Nil ELSE IF v = last THEN w ELSE wk_entry[v]]
    /\ sqh_first' = IF last = Nil THEN [sqh_first EXCEPT ![i] = w] ELSE sqh_first
    /\ sqh_last' = [sqh_last EXCEPT ![i] = w]

\* cv_signal of q_cv, for the worker: workqueue_finiqueue sleeps there only
\* when the next to signal is workqueue_exit.
cv_signal(i) == worker' = [worker EXCEPT ![i] = IF @ = "sleep" THEN "top" ELSE @]

-----------------------------------------------------------------------------
(* workqueue_enqueue, by anybody who has not got the work waiting already  *)

Waiting(w) == \E i \in Queue : \E n \in 1 .. Len(waiting[i]) : waiting[i][n] = w

workqueue_enqueue(i, w) ==
    /\ owner = "created" /\ ~Waiting(w)
    /\ SIMPLEQ_INSERT_TAIL(i, w)
    /\ cv_signal(i)
    /\ waiting' = [waiting EXCEPT ![i] = Append(@, w)]
    /\ UNCHANGED <<wq_func, q_worker, wk, nxt, owner, todo, fq>>

-----------------------------------------------------------------------------
(* workqueue_worker, workqueue_runlist and workqueue_exit                  *)

TakeList(i) ==
    /\ worker[i] = "top"
    /\ \/ /\ sqh_first[i] = Nil
          /\ worker' = [worker EXCEPT ![i] = "sleep"]
          /\ UNCHANGED <<wk, sqh_first, sqh_last>>
       \/ /\ sqh_first[i] # Nil
          /\ wk' = [wk EXCEPT ![i] = sqh_first[i]]
          /\ sqh_first' = [sqh_first EXCEPT ![i] = Nil]
          /\ sqh_last' = [sqh_last EXCEPT ![i] = Nil]
          /\ worker' = [worker EXCEPT ![i] = "list"]
    /\ UNCHANGED <<wq_func, q_worker, wk_entry, nxt, owner, todo, fq, waiting>>

\* The function is called for a work, or the list is at its end.
Call(i) ==
    /\ worker[i] = "list"
    /\ \/ /\ wk[i] = Nil
          /\ worker' = [worker EXCEPT ![i] = "top"]
          /\ UNCHANGED <<nxt, waiting>>
       \/ /\ wk[i] # Nil
          /\ nxt' = [nxt EXCEPT ![i] = wk_entry[wk[i]]]
          /\ worker' = [worker EXCEPT ![i] = wq_func]
          /\ waiting' = [waiting EXCEPT ![i] = IF @ = <<>> THEN @ ELSE Tail(@)]
    /\ UNCHANGED <<wq_func, q_worker, queues, wk, owner, todo, fq>>

\* (The variant looks for the next work when the function has returned.)
NextLate(i) == wk_entry[wk[i]]
NextWork(i) == nxt[i]
FuncReturns(i) ==
    /\ worker[i] = "client"
    /\ wk' = [wk EXCEPT ![i] = NextWork(i)]
    /\ nxt' = [nxt EXCEPT ![i] = Nil]
    /\ worker' = [worker EXCEPT ![i] = "list"]
    /\ UNCHANGED <<wq_func, q_worker, queues, owner, todo, fq, waiting>>

workqueue_exit(i) ==
    /\ worker[i] = "exit"
    /\ q_worker' = [q_worker EXCEPT ![i] = FALSE]
    /\ worker' = [worker EXCEPT ![i] = "gone"]
    /\ owner' = IF owner = "sleep" /\ fq = i THEN "wait" ELSE owner
    /\ wk' = [wk EXCEPT ![i] = Nil] /\ nxt' = [nxt EXCEPT ![i] = Nil]
    /\ UNCHANGED <<wq_func, queues, todo, fq, waiting>>

-----------------------------------------------------------------------------
(* workqueue_create and workqueue_destroy                                  *)

workqueue_create ==
    /\ owner = "out"
    /\ owner' = "create" /\ todo' = Queue /\ wq_func' = "client"
    /\ UNCHANGED <<q_worker, queues, workers, fq, waiting>>

\* kthread_create may fail, and what was created is destroyed again.
workqueue_initqueue(i) ==
    /\ owner = "create" /\ i \in todo
    /\ sqh_first' = [sqh_first EXCEPT ![i] = Nil]
    /\ sqh_last' = [sqh_last EXCEPT ![i] = Nil]
    /\ \/ /\ q_worker' = [q_worker EXCEPT ![i] = TRUE]
          /\ worker' = [worker EXCEPT ![i] = "top"]
          /\ todo' = todo \ {i}
          /\ owner' = IF todo = {i} THEN "created" ELSE "create"
          /\ UNCHANGED wq_func
       \/ /\ todo' = Queue /\ owner' = "destroy" /\ wq_func' = "exit"
          /\ UNCHANGED <<q_worker, worker>>
    /\ UNCHANGED <<wk_entry, wk, nxt, fq, waiting>>

\* The client destroys the queue when the function was called for each work.
Quiet == \A i \in Queue : waiting[i] = <<>>
workqueue_destroy ==
    /\ owner = "created" /\ Quiet
    /\ owner' = "destroy" /\ todo' = Queue /\ wq_func' = "exit"
    /\ UNCHANGED <<q_worker, queues, workers, fq, waiting>>

workqueue_finiqueue(i) ==
    /\ owner = "destroy" /\ i \in todo
    /\ todo' = todo \ {i}
    /\ \/ ~q_worker[i] /\ UNCHANGED <<queues, worker, owner, fq>>
       \/ /\ q_worker[i]
          /\ SIMPLEQ_INSERT_TAIL(i, wqe)
          /\ cv_signal(i)
          /\ owner' = "wait" /\ fq' = i
    /\ UNCHANGED <<wq_func, q_worker, wk, nxt, waiting>>

\* It waits for the worker to be gone.
\* (The variant polls until all workers are.)
WaitForAll ==
    /\ owner = "wait"
    /\ owner' = IF \E i \in Queue : q_worker[i] THEN "wait" ELSE "destroy"
    /\ fq' = IF owner' = "wait" THEN fq ELSE Nil
    /\ UNCHANGED <<wq_func, q_worker, queues, workers, todo, waiting>>
Wait ==
    /\ owner = "wait"
    /\ owner' = IF q_worker[fq] THEN "sleep" ELSE "destroy"
    /\ fq' = IF q_worker[fq] THEN fq ELSE Nil
    /\ UNCHANGED <<wq_func, q_worker, queues, workers, todo, waiting>>

\* kmem_free
Free ==
    /\ owner = "destroy" /\ todo = {}
    /\ owner' = "out" /\ wq_func' = Nil
    /\ UNCHANGED <<q_worker, queues, workers, todo, fq, waiting>>

-----------------------------------------------------------------------------
Worker(i) == TakeList(i) \/ Call(i) \/ FuncReturns(i) \/ workqueue_exit(i)

Owner == \/ Wait \/ Free
         \/ \E i \in Queue : workqueue_initqueue(i) \/ workqueue_finiqueue(i)

WqNext == \/ \E i \in Queue : Worker(i) \/ \E w \in Work : workqueue_enqueue(i, w)
          \/ workqueue_create \/ workqueue_destroy \/ Owner

WqSpec == WqInit /\ [][WqNext]_wqvars

\* The threads run, and the client's function returns.
WqFairness == WF_wqvars(Owner) /\ \A i \in Queue : WF_wqvars(Worker(i))

-----------------------------------------------------------------------------
(* Properties                                                              *)

\* The client's function is called for the works of a queue in the order they
\* were enqueued in, once each time, although a work may be enqueued again,
\* and linked anew, while its function runs.
InOrder ==
    [][\A i \in Queue : worker[i] = "list" /\ worker'[i] = "client" =>
          waiting[i] # <<>> /\ Head(waiting[i]) = wk[i]]_wqvars

\* workqueue_destroy returns, also when it is called for a queue that could
\* not be created completely.
DestroyReturns == owner \in {"destroy", "wait", "sleep"} ~> owner = "out"
=============================================================================
