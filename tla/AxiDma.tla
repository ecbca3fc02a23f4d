------------------------------- MODULE AxiDma -------------------------------
(***************************************************************************)
(* Transfers between memory and the FPGA: TxDMA and RxDMA, which start a   *)
(* transfer and spin on a flag (app/dma/dmaUser.c), and the interrupt      *)
(* handlers that set it (app/dma/dma_intr.c).  One engine serves both      *)
(* directions; each direction has a task that calls its function again and *)
(* again (src/main.c).  The engine and its driver are external.            *)
(***************************************************************************)
EXTENDS Naturals

CONSTANTS Channels,     \* {"Tx", "Rx"}
          Errors,       \* channels whose transfers can fail
          MaxPolls      \* RESET_TIMEOUT_COUNTER, scaled down

ASSUME ChannelsAssumption == Errors \subseteq Channels /\ MaxPolls \in Nat \ {0}

VARIABLES
  Done,        \* TxDone, RxDone
  Error,
  task,        \* where the call of each channel is
  engine,      \* what each channel of the engine does
  irq,         \* its interrupt status register
  handler,     \* the running interrupt handler
  result,      \* what the last call of each channel returned
  transfers    \* history: what became of the transfer of the current call

dmaVars == <<Done, Error, task, engine, irq, handler, result, transfers>>

NoHandler == [channel |-> "none", step |-> "none", status |-> {}, polls |-> 0]

DmaInit ==
  /\ Done = [c \in Channels |-> FALSE]
  /\ Error = FALSE
  /\ task = [c \in Channels |-> "idle"]
  /\ engine = [c \in Channels |-> "idle"]
  /\ irq = [c \in Channels |-> {}]
  /\ handler = NoHandler
  /\ result = [c \in Channels |-> "none"]
  /\ transfers = [c \in Channels |-> "none"]

(* Tasks run while no interrupt handler does.                              *)
TaskLevel == handler = NoHandler

(***************************************************************************)
(* TxDMA and RxDMA.                                                        *)
(***************************************************************************)
(* A wrong variant, for contrast.                                          *)
ClearNever(c) ==
  /\ TaskLevel
  /\ task[c] = "idle"
  /\ task' = [task EXCEPT ![c] = "start"]
  /\ UNCHANGED <<Done, Error, engine, irq, handler, result, transfers>>

Clear(c) ==
  /\ TaskLevel
  /\ task[c] = "idle"
  /\ Done' = [Done EXCEPT ![c] = FALSE]
  /\ task' = [task EXCEPT ![c] = "start"]
  /\ UNCHANGED <<Error, engine, irq, handler, result, transfers>>

(* XAxiDma_SimpleTransfer refuses a channel that is busy.                  *)
StartTransfer(c) ==
  /\ TaskLevel
  /\ task[c] = "start"
  /\ IF engine[c] = "idle"
     THEN /\ engine' = [engine EXCEPT ![c] = "busy"]
          /\ transfers' = [transfers EXCEPT ![c] = "started"]
          /\ task' = [task EXCEPT ![c] = "wait"]
          /\ UNCHANGED result
     ELSE /\ result' = [result EXCEPT ![c] = "XST_FAILURE"]
          /\ task' = [task EXCEPT ![c] = "idle"]
          /\ UNCHANGED <<engine, transfers>>
  /\ UNCHANGED <<Done, Error, irq, handler>>

Finish(c) ==
  /\ TaskLevel
  /\ task[c] = "wait"
  /\ Done[c]
  /\ result' = [result EXCEPT ![c] = "XST_SUCCESS"]
  /\ task' = [task EXCEPT ![c] = "idle"]
  /\ UNCHANGED <<Done, Error, engine, irq, handler, transfers>>

(***************************************************************************)
(* The engine: a transfer completes or fails, and raises an interrupt.     *)
(***************************************************************************)
Complete(c) ==
  /\ engine[c] = "busy"
  /\ engine' = [engine EXCEPT ![c] = "idle"]
  /\ irq' = [irq EXCEPT ![c] = @ \cup {"IOC"}]
  /\ transfers' = [transfers EXCEPT ![c] = "completed"]
  /\ UNCHANGED <<Done, Error, task, handler, result>>

Fail(c) ==
  /\ c \in Errors
  /\ engine[c] = "busy"
  /\ engine' = [engine EXCEPT ![c] = "halted"]
  /\ irq' = [irq EXCEPT ![c] = @ \cup {"ERROR"}]
  /\ transfers' = [transfers EXCEPT ![c] = "failed"]
  /\ UNCHANGED <<Done, Error, task, handler, result>>

(***************************************************************************)
(* DMA_TxIntrHandler and DMA_RxIntrHandler.                                *)
(***************************************************************************)
ReadAndAck(c) ==
  /\ handler = NoHandler
  /\ irq[c] # {}
  /\ handler' = [channel |-> c, step |-> "handle", status |-> irq[c], polls |-> 0]
  /\ irq' = [irq EXCEPT ![c] = {}]
  /\ UNCHANGED <<Done, Error, task, engine, result, transfers>>

(* An error: reset the engine, the other channel's transfer included, and  *)
(* wait for the reset to be done, but not for long.                        *)
HandleError ==
  /\ handler.step = "handle"
  /\ "ERROR" \in handler.status
  /\ Error' = TRUE
  /\ engine' = [c \in Channels |-> "resetting"]
  /\ irq' = [c \in Channels |-> {}]
  /\ transfers' = [c \in Channels |->
                     IF engine[c] = "busy" THEN "failed" ELSE transfers[c]]
  /\ handler' = [handler EXCEPT !.step = "poll", !.polls = MaxPolls]
  /\ UNCHANGED <<Done, task, result>>

PollReset ==
  /\ handler.step = "poll"
  /\ handler' = IF handler.polls = 0 \/ \A c \in Channels : engine[c] = "idle"
                THEN NoHandler
                ELSE [handler EXCEPT !.polls = @ - 1]
  /\ UNCHANGED <<Done, Error, task, engine, irq, result, transfers>>

ResetIsDone ==
  /\ \E c \in Channels : engine[c] = "resetting"
  /\ engine' = [c \in Channels |-> IF engine[c] = "resetting" THEN "idle" ELSE engine[c]]
  /\ UNCHANGED <<Done, Error, task, irq, handler, result, transfers>>

(* A wrong variant, for contrast.                                          *)
HandleCompletionSilently ==
  /\ handler.step = "handle"
  /\ "ERROR" \notin handler.status
  /\ handler' = NoHandler
  /\ UNCHANGED <<Done, Error, task, engine, irq, result, transfers>>

HandleCompletion ==
  /\ handler.step = "handle"
  /\ "ERROR" \notin handler.status
  /\ Done' = [Done EXCEPT ![handler.channel] = TRUE]
  /\ handler' = NoHandler
  /\ UNCHANGED <<Error, task, engine, irq, result, transfers>>

Handle == HandleError \/ PollReset \/ HandleCompletion

(***************************************************************************)
(* The specification.                                                      *)
(***************************************************************************)
Call(c) == Clear(c) \/ StartTransfer(c) \/ Finish(c)

Hardware == \/ \E c \in Channels : Complete(c) \/ Fail(c)
            \/ ResetIsDone

DmaNext ==
  \/ \E c \in Channels : Call(c) \/ ReadAndAck(c)
  \/ Handle
  \/ Hardware

DmaSpec == DmaInit /\ [][DmaNext]_dmaVars

(* The tasks run again and again, a started transfer ends, an interrupt is *)
(* taken and its handler runs to its end.                                  *)
DmaFairSpec ==
  /\ DmaSpec
  /\ WF_dmaVars(Handle) /\ WF_dmaVars(ResetIsDone)
  /\ \A c \in Channels : /\ SF_dmaVars(Call(c))
                         /\ WF_dmaVars(Complete(c) \/ Fail(c))
                         /\ SF_dmaVars(ReadAndAck(c))

(***************************************************************************)
(* Properties.                                                             *)
(***************************************************************************)
(* Types of the variables.                                                 *)
DmaTypeOK ==
  /\ Done \in [Channels -> BOOLEAN]
  /\ Error \in BOOLEAN
  /\ task \in [Channels -> {"idle", "start", "wait"}]
  /\ engine \in [Channels -> {"idle", "busy", "halted", "resetting"}]
  /\ irq \in [Channels -> SUBSET {"IOC", "ERROR"}]
  /\ handler = NoHandler
       \/ handler \in [channel : Channels, step : {"handle", "poll"},
                       status : SUBSET {"IOC", "ERROR"}, polls : 0 .. MaxPolls]
  /\ result \in [Channels -> {"none", "XST_SUCCESS", "XST_FAILURE"}]
  /\ transfers \in [Channels -> {"none", "started", "completed", "failed"}]

(* A call returns success only when the transfer it started has completed: *)
(* no flag of an earlier transfer or of the other direction ends the wait. *)
SuccessMeansCompleted ==
  [][\A c \in Channels :
       task[c] = "wait" /\ task'[c] = "idle" => transfers[c] = "completed"]_dmaVars

(* As long as no transfer failed, every call of TxDMA and RxDMA returns.   *)
CallsReturnUntilError ==
  \A c \in Channels : task[c] = "wait" ~> (task[c] = "idle" \/ Error)

(* The handler recovers from an error: every call returns.                 *)
CallsReturn == \A c \in Channels : task[c] = "wait" ~> task[c] = "idle"
=============================================================================
