------------------------------ MODULE TklUart ------------------------------
(***************************************************************************)
(* The UART adapter tkl_uart.c: one receive task and one event queue for   *)
(* all ports, in global variables that the SDK's thread and the receive    *)
(* task share.  The UART driver of esp-idf, which allocates and frees the  *)
(* queues, is modelled as far as the adapter depends on it.                *)
(***************************************************************************)
CONSTANTS
  Port,         \* the ports
  Queue,        \* memory for event queues
  Task,         \* memory for tasks
  NULL,
  Wild          \* what is found where a local variable was

ASSUME UartAssumption ==
  /\ NULL \notin Port \cup Queue \cup Task
  /\ Wild \notin Port \cup {NULL}

VARIABLES
  tkl_uart_thread, tkl_uart_rx_queue, uart_rx_cb,
  p_uart_obj,   \* the driver: the event queue of each installed port, or NULL
  rx,           \* the receive tasks: where each is, its queue, its uart_num
  pc, port,     \* the SDK's thread: the rest of its call, and the port
  broken        \* an installation has failed half way

adapterVars == <<tkl_uart_thread, tkl_uart_rx_queue, uart_rx_cb>>
vars == <<adapterVars, p_uart_obj, rx, pc, port, broken>>

At(at, queue, uart_num) == [at |-> at, queue |-> queue, uart_num |-> uart_num]
NoTask == At("none", NULL, NULL)

\* The queues that are allocated, and the tasks that exist.
LiveQueue == {p_uart_obj[p] : p \in Port} \ {NULL}
LiveTask == {t \in Task : rx[t].at # "none"}

Init ==
  /\ tkl_uart_thread = NULL /\ tkl_uart_rx_queue = NULL
  /\ uart_rx_cb = [p \in Port |-> FALSE]
  /\ p_uart_obj = [p \in Port |-> NULL]
  /\ rx = [t \in Task |-> NoTask]
  /\ pc = "idle" /\ port \in Port /\ broken = FALSE
-----------------------------------------------------------------------------
(* The SDK's thread. *)

\* tkl_uart_init(): uart_driver_install() allocates a queue and writes it to
\* the one global variable; an installed port is refused.
tkl_uart_init(p) ==
  /\ pc = "idle" /\ p_uart_obj[p] = NULL
  /\ \E q \in Queue \ LiveQueue :
       /\ p_uart_obj' = [p_uart_obj EXCEPT ![p] = q]
       /\ tkl_uart_rx_queue' = q
  /\ pc' = "install" /\ port' = p
  /\ UNCHANGED <<tkl_uart_thread, uart_rx_cb, rx, broken>>

\* Without an interrupt the queue is freed again; the variable keeps it.
InstallInterrupt ==
  /\ pc = "install"
  /\ \/ UNCHANGED <<p_uart_obj, broken>>
     \/ p_uart_obj' = [p_uart_obj EXCEPT ![port] = NULL] /\ broken' = TRUE
  /\ pc' = "idle"
  /\ UNCHANGED <<adapterVars, rx, port>>

\* Mutant: the queue is forgotten with the driver, before the task is deleted.
DeinitForget(p) ==
  /\ pc = "idle"
  /\ p_uart_obj' = [p_uart_obj EXCEPT ![p] = NULL]
  /\ tkl_uart_rx_queue' = NULL
  /\ pc' = "deleteTask" /\ port' = p
  /\ UNCHANGED <<tkl_uart_thread, uart_rx_cb, rx, broken>>

\* tkl_uart_deinit(): uart_driver_delete() frees the queue; a port that is not
\* installed is no error.
tkl_uart_deinit(p) ==
  /\ pc = "idle"
  /\ p_uart_obj' = [p_uart_obj EXCEPT ![p] = NULL]
  /\ pc' = "deleteTask" /\ port' = p
  /\ UNCHANGED <<adapterVars, rx, broken>>

\* vTaskDelete(tkl_uart_thread), if there is one.
DeleteThread ==
  /\ rx' = [t \in Task |-> IF t = tkl_uart_thread THEN NoTask ELSE rx[t]]
  /\ tkl_uart_thread' = NULL

\* Mutant: the task is left alone when its queue is gone.
DeinitTaskQueue ==
  /\ pc = "deleteTask"
  /\ IF tkl_uart_rx_queue \in LiveQueue
     THEN DeleteThread ELSE UNCHANGED <<rx, tkl_uart_thread>>
  /\ pc' = "clear"
  /\ UNCHANGED <<tkl_uart_rx_queue, uart_rx_cb, p_uart_obj, port, broken>>

DeinitTask ==
  /\ pc = "deleteTask"
  /\ DeleteThread
  /\ pc' = "clear"
  /\ UNCHANGED <<tkl_uart_rx_queue, uart_rx_cb, p_uart_obj, port, broken>>

DeinitClear ==
  /\ pc = "clear"
  /\ tkl_uart_rx_queue' = NULL
  /\ pc' = "idle"
  /\ UNCHANGED <<tkl_uart_thread, uart_rx_cb, p_uart_obj, rx, port, broken>>

\* Mutant: the task of an earlier registration is kept.
CbRegKeep(p) ==
  /\ pc = "idle" /\ tkl_uart_rx_queue # NULL
  /\ pc' = "create" /\ port' = p
  /\ UNCHANGED <<adapterVars, p_uart_obj, rx, broken>>

\* tkl_uart_rx_irq_cb_reg(): nothing without a queue; the task of an earlier
\* registration, for whatever port, is deleted.
tkl_uart_rx_irq_cb_reg(p) ==
  /\ pc = "idle" /\ tkl_uart_rx_queue # NULL
  /\ DeleteThread
  /\ pc' = "create" /\ port' = p
  /\ UNCHANGED <<tkl_uart_rx_queue, uart_rx_cb, p_uart_obj, broken>>

\* The new task gets the address of a local variable; creating it may fail.
CbRegCreate ==
  /\ pc = "create"
  /\ \/ \E t \in Task \ LiveTask :
          /\ rx' = [rx EXCEPT ![t] = At("start", NULL, NULL)]
          /\ tkl_uart_thread' = t
          /\ pc' = "enable"
     \/ pc' = "idle" /\ UNCHANGED <<rx, tkl_uart_thread>>
  /\ UNCHANGED <<tkl_uart_rx_queue, uart_rx_cb, p_uart_obj, port, broken>>

\* The interrupt is enabled before the callback, which may be NULL, is set.
CbRegSet ==
  /\ pc = "enable"
  /\ \E set \in BOOLEAN : uart_rx_cb' = [uart_rx_cb EXCEPT ![port] = set]
  /\ pc' = "idle"
  /\ UNCHANGED <<tkl_uart_thread, tkl_uart_rx_queue, p_uart_obj, rx, port,
                 broken>>
-----------------------------------------------------------------------------
(* tkl_uart_rx_process(), the receive task. *)

\* The local variable is there as long as the registration has not returned.
RxStart(t) ==
  /\ rx[t].at = "start"
  /\ \E n \in IF pc = "enable" THEN {port} ELSE Port \cup {Wild} :
       rx' = [rx EXCEPT ![t] = At("test", NULL, n)]
  /\ UNCHANGED <<adapterVars, p_uart_obj, pc, port, broken>>

\* The global queue is read anew for each event; without one the task ends.
RxTest(t) ==
  /\ rx[t].at = "test"
  /\ rx' = [rx EXCEPT ![t] =
              IF tkl_uart_rx_queue = NULL THEN NoTask
              ELSE At("wait", tkl_uart_rx_queue, @.uart_num)]
  /\ UNCHANGED <<adapterVars, p_uart_obj, pc, port, broken>>

\* xQueueReceive() returns; on a queue that was freed it may or may not.  The
\* callback is called for data if there is one, behind the array at random.
RxReceive(t) ==
  /\ rx[t].at = "wait"
  /\ \E at \in {"test", "call"} :
       /\ at = "call" =>
            rx[t].uart_num \in {Wild} \cup {p \in Port : uart_rx_cb[p]}
       /\ rx' = [rx EXCEPT ![t] = At(at, NULL, @.uart_num)]
  /\ UNCHANGED <<adapterVars, p_uart_obj, pc, port, broken>>

RxCall(t) ==
  /\ rx[t].at = "call"
  /\ rx' = [rx EXCEPT ![t] = At("test", NULL, @.uart_num)]
  /\ UNCHANGED <<adapterVars, p_uart_obj, pc, port, broken>>

tkl_uart_rx_process(t) == RxStart(t) \/ RxTest(t) \/ RxReceive(t) \/ RxCall(t)
-----------------------------------------------------------------------------
Next ==
  \/ \E p \in Port : tkl_uart_init(p) \/ tkl_uart_deinit(p)
                       \/ tkl_uart_rx_irq_cb_reg(p)
  \/ InstallInterrupt
  \/ DeinitTask \/ DeinitClear
  \/ CbRegCreate \/ CbRegSet
  \/ \E t \in Task : tkl_uart_rx_process(t)

Spec == Init /\ [][Next]_vars
-----------------------------------------------------------------------------
(* Properties. *)

\* Every variable keeps its type; a task waits for a queue it was given.
TypeOK ==
  /\ tkl_uart_thread \in Task \cup {NULL}
  /\ tkl_uart_rx_queue \in Queue \cup {NULL}
  /\ uart_rx_cb \in [Port -> BOOLEAN]
  /\ p_uart_obj \in [Port -> Queue \cup {NULL}]
  /\ rx \in [Task -> [at : {"none", "start", "test", "wait", "call"},
                      queue : Queue \cup {NULL},
                      uart_num : Port \cup {Wild, NULL}]]
  /\ pc \in {"idle", "install", "deleteTask", "clear", "create", "enable"}
  /\ port \in Port /\ broken \in BOOLEAN
  /\ \A t \in Task : /\ rx[t].at = "wait" => rx[t].queue # NULL
                     /\ rx[t].at \in {"test", "wait", "call"} =>
                          rx[t].uart_num # NULL

\* tkl_uart_deinit() and tkl_uart_rx_irq_cb_reg() call vTaskDelete() for
\* tkl_uart_thread whenever it is set: it is then a task that still exists,
\* although a receive task may end by itself.
ThreadExists == tkl_uart_thread # NULL => tkl_uart_thread \in LiveTask

\* Registering again, for the same port or another one, leaves no second
\* receive task behind that takes events from the same queue.
OneReceiver == LiveTask \subseteq {tkl_uart_thread}

\* Between calls the receive task waits for a queue that exists, although every
\* tkl_uart_init() replaces the global queue and every tkl_uart_deinit() frees
\* one (as long as no installation has failed half way).
QueueLive ==
  pc = "idle" /\ ~broken =>
    \A t \in LiveTask : rx[t].queue \in LiveQueue \cup {NULL}
=============================================================================
