--------------------------- MODULE ModbusPolling ---------------------------
(* modbus_task.c: the request thread asks the drives for their position one *)
(* after the other, for ever, and stores each answer in motor_pos.c.  The   *)
(* FreeModbus engine and the drives are external: a request ends with the   *)
(* callback and success, with an error at once, or with a timeout.          *)
EXTENDS MotorPos

CONSTANTS
  ANSWER_TIME,            \* ticks within which an answer or an error comes
  RESPOND_TIMEOUT,        \* MB_MASTER_TIMEOUT_MS_RESPOND
  MAX_MISSES              \* a bound: requests of a drive that fail in a row

ASSUME ModbusAssumption ==
  /\ ANSWER_TIME \in Nat /\ RESPOND_TIMEOUT \in Nat
  /\ ANSWER_TIME < RESPOND_TIMEOUT
  /\ MAX_MISSES \in Nat

VARIABLES
  rpc, ri,                \* mb_reqthread(): see RequestPcs, and i
  sent,                   \* when the request went out
  g_input_data,           \* with g_input_callback_seen as its field seen
  misses,                 \* failed requests in a row
  where                   \* encoder positions: not code

pollVars == <<rpc, ri, sent, g_input_data, misses>>
modbusVars == <<posVars, pollVars, where>>

RequestPcs == {"start", "create", "failed", "next", "wait", "silent", "post"}

ModbusTypeOK ==
  /\ rpc \in RequestPcs
  /\ ri \in Motors
  /\ sent \in Nat
  /\ g_input_data \in [regs : Registers, valid : BOOLEAN, seen : BOOLEAN]
  /\ misses \in [Motors -> Nat]
  /\ where \in [Motors -> Nat]

ModbusInit ==
  /\ rpc = "start" /\ ri = 0 /\ sent = 0
  /\ g_input_data = [regs |-> NoRegisters, valid |-> FALSE, seen |-> FALSE]
  /\ misses = [m \in Motors |-> 0]

----------------------------------------------------------------------------
(* modbus_engine_initialize(): the engine or its poll thread may fail to     *)
(* start; stewart_payload_main() goes on without.                           *)
StartEngine ==
  /\ rpc = "start"
  /\ rpc' \in {"create", "failed"}
  /\ UNCHANGED <<posVars, ri, sent, g_input_data, misses, where>>

(* The rest of modbus_task_start(): so may the request thread. *)
StartRequests ==
  /\ rpc = "create"
  /\ rpc' \in {"next", "failed"}
  /\ UNCHANGED <<posVars, ri, sent, g_input_data, misses, where>>

\* Mutant: what an earlier request has left counts as an answer.
SendRequest_KeepsInput ==
  /\ rpc = "next"
  /\ rpc' = "wait"
  /\ sent' = now
  /\ UNCHANGED <<posVars, ri, g_input_data, misses, where>>

(* modbus_poll_one_slave() up to the request. *)
SendRequest ==
  /\ rpc = "next"
  /\ rpc' = "wait"
  /\ sent' = now
  /\ g_input_data' = [g_input_data EXCEPT !.valid = FALSE, !.seen = FALSE]
  /\ UNCHANGED <<posVars, ri, misses, where>>

\* Mutant: one slave too many.
NextSlave_TooFar == ri' = (ri + 1) % (MOTOR_POS_COUNT + 1)

NextSlave == ri' = (ri + 1) % MOTOR_POS_COUNT

(* eMBMasterRegInputCB(), called by the poll thread with the answer. *)
InputCallback ==
  /\ rpc = "wait" /\ ~g_input_data.seen
  /\ g_input_data' = [regs |-> RegistersAt(where[ri]), valid |-> TRUE, seen |-> TRUE]
  /\ UNCHANGED <<posVars, rpc, ri, sent, misses, where>>

(* The request has succeeded: motor_pos_update() under its lock. *)
StoreReading ==
  /\ rpc = "wait"
  /\ g_input_data.seen /\ g_input_data.valid
  /\ Update(ri, g_input_data.regs)
  /\ rpc' = "post"
  /\ misses' = [misses EXCEPT ![ri] = 0]
  /\ sent' = 0
  /\ UNCHANGED <<ri, g_input_data, where>>

PostReading ==
  /\ rpc = "post"
  /\ PostUpdate
  /\ rpc' = "next" /\ NextSlave
  /\ UNCHANGED <<sent, g_input_data, misses, where>>

(* The request fails: a bad frame or an exception at once, or a drive that  *)
(* says nothing until the timeout.  The next drive is asked, without retry. *)
RequestFails ==
  /\ \/ rpc = "wait" /\ ~g_input_data.seen
     \/ rpc = "silent" /\ now - sent >= RESPOND_TIMEOUT
  /\ misses[ri] < MAX_MISSES
  /\ misses' = [misses EXCEPT ![ri] = @ + 1]
  /\ rpc' = "next" /\ NextSlave /\ sent' = 0
  /\ UNCHANGED <<posVars, g_input_data, where>>

FallsSilent ==
  /\ rpc = "wait" /\ ~g_input_data.seen
  /\ misses[ri] < MAX_MISSES
  /\ rpc' = "silent"
  /\ UNCHANGED <<posVars, ri, sent, g_input_data, misses, where>>

Modbus ==
  \/ StartEngine \/ StartRequests \/ SendRequest \/ InputCallback
  \/ StoreReading \/ PostReading \/ RequestFails

(* Time may pass while nothing has started, or while an answer is awaited:  *)
(* the steps of the request thread and the other outcomes take none.        *)
BusInTime ==
  \/ rpc \in {"start", "create", "failed"}
  \/ rpc = "wait" /\ ~g_input_data.seen /\ now - sent < ANSWER_TIME
  \/ rpc = "silent" /\ now - sent < RESPOND_TIMEOUT

=============================================================================
