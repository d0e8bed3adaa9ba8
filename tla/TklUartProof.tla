---------------------------- MODULE TklUartProof ----------------------------
(***************************************************************************)
(* Theorems about TklUart, for any number of ports and any memory for      *)
(* queues and tasks.                                                       *)
(***************************************************************************)
EXTENDS TklUart, TLAPS

\* A receive task exists only while there is a global queue, so none ends by
\* itself, and the registered one is the only one.
TaskInv ==
  /\ ThreadExists /\ OneReceiver
  /\ LiveTask # {} => tkl_uart_rx_queue # NULL
  /\ pc \in {"clear", "create"} => tkl_uart_thread = NULL
  /\ pc = "create" => tkl_uart_rx_queue # NULL

\* Only tkl_uart_deinit() leaves queues in use that are gone, until it has
\* deleted the task and cleared the global variable.
QueueInv ==
  ~broken =>
    /\ pc # "deleteTask" =>
         \A t \in LiveTask : rx[t].queue \in LiveQueue \cup {NULL}
    /\ pc \notin {"deleteTask", "clear"} =>
         tkl_uart_rx_queue \in LiveQueue \cup {NULL}

UartInv == TypeOK /\ TaskInv /\ QueueInv
-----------------------------------------------------------------------------
\* Nothing is installed and no task exists.
LEMMA UartInit == Init => UartInv
<1> SUFFICES ASSUME Init PROVE UartInv
  OBVIOUS
<1>1. TypeOK
  BY UartAssumption DEF Init, TypeOK, NoTask, At
<1>2. LiveTask = {}
  BY DEF Init, LiveTask, NoTask, At
<1> QED
  BY <1>1, <1>2 DEF Init, UartInv, TaskInv, QueueInv, ThreadExists, OneReceiver

\* The part of TypeOK about the receive tasks.
RxState == [at : {"none", "start", "test", "wait", "call"},
            queue : Queue \cup {NULL}, uart_num : Port \cup {Wild, NULL}]

RxOK(state) == /\ state \in RxState
               /\ state.at = "wait" => state.queue # NULL
               /\ state.at \in {"test", "wait", "call"} => state.uart_num # NULL

\* TypeOK, with the receive tasks taken one by one.
LEMMA RxType ==
  TypeOK <=>
    /\ tkl_uart_thread \in Task \cup {NULL}
    /\ tkl_uart_rx_queue \in Queue \cup {NULL}
    /\ uart_rx_cb \in [Port -> BOOLEAN]
    /\ p_uart_obj \in [Port -> Queue \cup {NULL}]
    /\ pc \in {"idle", "install", "deleteTask", "clear", "create", "enable"}
    /\ port \in Port /\ broken \in BOOLEAN
    /\ rx \in [Task -> RxState] /\ \A t \in Task : RxOK(rx[t])
BY DEF TypeOK, RxOK, RxState

\* What vTaskDelete(tkl_uart_thread) leaves: no task at all.
LEMMA DeleteLeavesNone ==
  ASSUME UartInv, DeleteThread
  PROVE  /\ rx' \in [Task -> RxState] /\ \A t \in Task : RxOK(rx'[t])
         /\ LiveTask' = {} /\ tkl_uart_thread' = NULL
<1>1. \A t \in Task : t # tkl_uart_thread => rx[t].at = "none"
  BY DEF UartInv, TaskInv, OneReceiver, LiveTask
<1>2. NoTask \in RxState /\ RxOK(NoTask) /\ NoTask.at = "none"
  BY DEF RxState, RxOK, NoTask, At
<1>3. rx \in [Task -> RxState] /\ \A t \in Task : RxOK(rx[t])
  BY RxType DEF UartInv
<1>4. \A t \in Task : rx'[t] = IF t = tkl_uart_thread THEN NoTask ELSE rx[t]
  BY DEF DeleteThread
<1>5. rx' \in [Task -> RxState]
  BY <1>2, <1>3 DEF DeleteThread
<1>6. \A t \in Task : RxOK(rx'[t]) /\ rx'[t].at = "none"
  BY <1>1, <1>2, <1>3, <1>4
<1> QED
  BY <1>5, <1>6 DEF DeleteThread, LiveTask

\* One receive task goes on to another state, which is neither the end nor a
\* wait for a queue that is gone.
LEMMA RxMoves ==
  ASSUME UartInv, NEW t \in Task, rx[t].at # "none", NEW state,
         RxOK(state), state.at # "none",
         state.queue \in {NULL, tkl_uart_rx_queue},
         rx' = [rx EXCEPT ![t] = state],
         UNCHANGED <<adapterVars, p_uart_obj, pc, port, broken>>
  PROVE  UartInv'
<1>1. rx \in [Task -> RxState] /\ \A s \in Task : RxOK(rx[s])
  BY RxType DEF UartInv
<1>2. /\ rx' \in [Task -> RxState] /\ \A s \in Task : RxOK(rx'[s])
      /\ \A s \in Task : rx'[s] = IF s = t THEN state ELSE rx[s]
  BY <1>1 DEF RxOK
<1>3. LiveTask' = LiveTask /\ t \in LiveTask
  BY <1>2 DEF LiveTask
<1>4. t = tkl_uart_thread /\ LiveTask = {t}
  BY <1>3 DEF UartInv, TaskInv, OneReceiver
<1>5. TypeOK'
  BY <1>2, RxType DEF UartInv, TypeOK, adapterVars, RxOK, RxState
<1>6. TaskInv'
  BY <1>3 DEF UartInv, TaskInv, ThreadExists, OneReceiver, adapterVars
<1>7. LiveQueue' = LiveQueue
  BY DEF LiveQueue
<1>8. pc # "clear"
  BY <1>3, <1>4, UartAssumption DEF UartInv, TaskInv, TypeOK, LiveTask
<1>9. QueueInv'
  BY <1>2, <1>3, <1>7, <1>8 DEF UartInv, QueueInv, adapterVars
<1> QED
  BY <1>5, <1>6, <1>9 DEF UartInv

\* Each step of the receive task is such a move: it does not end by itself.
LEMMA RxStep ==
  ASSUME UartInv, NEW t \in Task, tkl_uart_rx_process(t)
  PROVE  UartInv'
<1>1. rx[t] \in RxState /\ RxOK(rx[t])
  BY RxType DEF UartInv
<1>2. rx[t].at # "none" => tkl_uart_rx_queue \in Queue \ {NULL}
  BY DEF UartInv, TaskInv, TypeOK, LiveTask
<1>3. PICK state :
        /\ rx' = [rx EXCEPT ![t] = state]
        /\ RxOK(state) /\ state.at # "none"
        /\ state.queue \in {NULL, tkl_uart_rx_queue}
  <2>1. CASE RxStart(t)
    <3>1. PICK n \in Port \cup {Wild} :
                 rx' = [rx EXCEPT ![t] = At("test", NULL, n)]
      BY <2>1 DEF RxStart, UartInv, TypeOK
    <3> DEFINE new == At("test", NULL, n)
    <3>2. RxOK(new) /\ new.at # "none" /\ new.queue = NULL
      BY UartAssumption DEF RxOK, RxState, At
    <3> QED
      BY <3>1, <3>2
  <2>2. CASE RxTest(t)
    <3> DEFINE new == At("wait", tkl_uart_rx_queue, rx[t].uart_num)
    <3>1. rx' = [rx EXCEPT ![t] = new]
      BY <1>2, <2>2 DEF RxTest
    <3>2. RxOK(new) /\ new.at # "none" /\ new.queue = tkl_uart_rx_queue
      BY <1>1, <1>2, <2>2 DEF RxOK, RxState, At, RxTest
    <3> QED
      BY <3>1, <3>2
  <2>3. CASE RxReceive(t) \/ RxCall(t)
    <3>1. PICK at \in {"test", "call"} :
                 rx' = [rx EXCEPT ![t] = At(at, NULL, rx[t].uart_num)]
      BY <2>3 DEF RxReceive, RxCall
    <3> DEFINE new == At(at, NULL, rx[t].uart_num)
    <3>2. RxOK(new) /\ new.at # "none" /\ new.queue = NULL
      BY <1>1, <2>3 DEF RxOK, RxState, At, RxReceive, RxCall
    <3> QED
      BY <3>1, <3>2
  <2> QED
    BY <2>1, <2>2, <2>3 DEF tkl_uart_rx_process
<1> QED
  BY <1>3, RxMoves DEF tkl_uart_rx_process, RxStart, RxTest, RxReceive, RxCall

\* uart_driver_install() and uart_driver_delete().
LEMMA DriverStep ==
  ASSUME UartInv, NEW p \in Port,
         tkl_uart_init(p) \/ InstallInterrupt \/ tkl_uart_deinit(p)
  PROVE  UartInv'
<1> USE DEF tkl_uart_init, InstallInterrupt, tkl_uart_deinit
<1>1. TypeOK'
  BY RxType DEF UartInv, TypeOK, adapterVars
<1>2. LiveTask' = LiveTask /\ UNCHANGED rx /\ UNCHANGED tkl_uart_thread
  BY DEF LiveTask, adapterVars
<1>3. TaskInv'
  BY <1>2, UartAssumption
     DEF UartInv, TaskInv, ThreadExists, OneReceiver, adapterVars
<1>4. CASE tkl_uart_init(p)
  <2>1. PICK q \in Queue \ LiveQueue :
               /\ p_uart_obj' = [p_uart_obj EXCEPT ![p] = q]
               /\ tkl_uart_rx_queue' = q
    BY <1>4
  <2>2. LiveQueue' = LiveQueue \cup {q}
    BY <1>4, <2>1, UartAssumption DEF LiveQueue, UartInv, TypeOK
  <2> QED
    BY <1>1, <1>2, <1>3, <1>4, <2>1, <2>2 DEF UartInv, QueueInv
<1>5. CASE InstallInterrupt
  <2>1. broken' \/ LiveQueue' = LiveQueue
    BY <1>5 DEF LiveQueue
  <2> QED
    BY <1>1, <1>2, <1>3, <1>5, <2>1 DEF UartInv, TypeOK, QueueInv, adapterVars
<1>6. CASE tkl_uart_deinit(p)
  BY <1>1, <1>3, <1>6 DEF UartInv, QueueInv
<1> QED
  BY <1>4, <1>5, <1>6

\* The rest of tkl_uart_deinit(), and tkl_uart_rx_irq_cb_reg().
LEMMA TaskStep ==
  ASSUME UartInv, NEW p \in Port,
         DeinitTask \/ DeinitClear \/ tkl_uart_rx_irq_cb_reg(p)
           \/ CbRegCreate \/ CbRegSet
  PROVE  UartInv'
<1> USE DEF DeinitTask, DeinitClear, tkl_uart_rx_irq_cb_reg, CbRegCreate, CbRegSet
<1>1. LiveQueue' = LiveQueue
  BY DEF LiveQueue
<1>2. CASE DeinitTask \/ tkl_uart_rx_irq_cb_reg(p)
  <2>1. DeleteThread
    BY <1>2
  <2>2. TypeOK'
    BY <1>2, <2>1, DeleteLeavesNone, RxType DEF UartInv, TypeOK, RxOK, RxState
  <2> QED
    BY <1>1, <1>2, <2>1, <2>2, DeleteLeavesNone
       DEF UartInv, TaskInv, QueueInv, ThreadExists, OneReceiver
<1>3. CASE DeinitClear
  <2>1. LiveTask' = {} /\ LiveTask = {}
    BY <1>3, UartAssumption DEF UartInv, TaskInv, OneReceiver, LiveTask
  <2>2. TypeOK'
    BY <1>3 DEF UartInv, TypeOK
  <2> QED
    BY <1>1, <1>3, <2>1, <2>2
       DEF UartInv, TaskInv, QueueInv, ThreadExists, OneReceiver
<1>4. CASE CbRegCreate
  <2>1. LiveTask = {}
    BY <1>4, UartAssumption DEF UartInv, TaskInv, OneReceiver, LiveTask
  <2>2. CASE pc' = "idle"
    BY <1>1, <1>4, <2>1, <2>2
       DEF UartInv, TypeOK, TaskInv, QueueInv, ThreadExists, OneReceiver, LiveTask
  <2>3. ASSUME NEW t \in Task \ LiveTask, tkl_uart_thread' = t, pc' = "enable",
               rx' = [rx EXCEPT ![t] = At("start", NULL, NULL)]
        PROVE  UartInv'
    <3>1. RxOK(At("start", NULL, NULL)) /\ At("start", NULL, NULL).at # "none"
      BY DEF RxOK, RxState, At
    <3>2. /\ rx' \in [Task -> RxState] /\ \A s \in Task : RxOK(rx'[s])
          /\ LiveTask' = {t} /\ rx'[t] = At("start", NULL, NULL)
      BY <2>1, <2>3, <3>1, RxType DEF UartInv, LiveTask, RxOK
    <3>3. TypeOK'
      BY <1>4, <2>3, <3>2 DEF UartInv, TypeOK, RxOK, RxState
    <3> QED
      BY <1>1, <1>4, <2>3, <3>2, <3>3
         DEF UartInv, TaskInv, QueueInv, ThreadExists, OneReceiver, At
  <2> QED
    BY <1>4, <2>2, <2>3
<1>5. CASE CbRegSet
  BY <1>1, <1>5
     DEF UartInv, TypeOK, TaskInv, QueueInv, ThreadExists, OneReceiver, LiveTask
<1> QED
  BY <1>2, <1>3, <1>4, <1>5

\* The inductive invariant.
THEOREM UartInvariant == Spec => []UartInv
<1>1. UartInv /\ [Next]_vars => UartInv'
  <2> SUFFICES ASSUME UartInv, [Next]_vars PROVE UartInv'
    OBVIOUS
  <2>1. CASE UNCHANGED vars
    BY <2>1 DEF vars, adapterVars, UartInv, TypeOK, TaskInv, QueueInv,
                ThreadExists, OneReceiver, LiveTask, LiveQueue
  <2>2. port \in Port
    BY DEF UartInv, TypeOK
  <2> QED
    BY <2>1, <2>2, RxStep, DriverStep, TaskStep DEF Next
<1> QED
  BY <1>1, UartInit, PTL DEF Spec

\* Type correctness of the adapter's and the driver's state.
THEOREM UartTypeCorrect == Spec => []TypeOK
<1>1. UartInv => TypeOK
  BY DEF UartInv
<1> QED
  BY <1>1, UartInvariant, PTL

\* tkl_uart_thread, which two functions hand to vTaskDelete(), always names the
\* one receive task.
THEOREM ThreadSafe == Spec => [](ThreadExists /\ OneReceiver)
<1>1. UartInv => ThreadExists /\ OneReceiver
  BY DEF UartInv, TaskInv
<1> QED
  BY <1>1, UartInvariant, PTL

\* Between calls of the adapter's operations the receive task does not wait for
\* a queue that tkl_uart_deinit() has freed.
THEOREM QueueSafe == Spec => []QueueLive
<1>1. UartInv => QueueLive
  BY DEF UartInv, QueueInv, QueueLive
<1> QED
  BY <1>1, UartInvariant, PTL
=============================================================================
