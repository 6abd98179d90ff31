-------------------------- MODULE EthTxQueue_proofs --------------------------
(***************************************************************************)
(* What the operations on the transmit queues preserve, whoever calls them.*)
(***************************************************************************)
EXTENDS EthTxQueue, TLAPS

(* No queue runs because the switch module woke it.                        *)
NoneGated == \A m \in Macs : queue[m] # "gated"

(* Opening or closing devices, interrupts, the watchdog and the DMA.       *)
NotGate ==
    \/ TxBufFull \/ TransmitCpt \/ \E m \in Macs, running \in BOOLEAN : TxTimeout(m, running)
    \/ \E m \in Macs, on \in BOOLEAN : SetCarrier(m, on)
    \/ \E S \in SUBSET Macs : StopQueues(S) \/ WakeQueues(S, "forced")
    \/ StopDma \/ StartDma \/ \E on \in BOOLEAN : SetStopFlag(on)

(* Only the switch module makes a queue run as "gated": no interrupt, no   *)
(* watchdog, no open and no part of the DMA rebuild does                   *)
(* (ifxmips_ppa_datapath_common.h:6250-6335, avmnet_config.c:1412-1450).   *)
LEMMA NotGateFacts ==
    ASSUME QueueTypeOK, NotGate
    PROVE  QueueTypeOK' /\ (NoneGated => NoneGated')
  <1>1. CASE TxBufFull
    BY <1>1 DEF TxBufFull, Stopped, QueueTypeOK, NoneGated
  <1>2. CASE TransmitCpt
    BY <1>2 DEF TransmitCpt, Woken, QueueTypeOK, NoneGated
  <1>3. CASE \E m \in Macs, running \in BOOLEAN : TxTimeout(m, running)
    BY <1>3 DEF TxTimeout, Woken, QueueTypeOK, NoneGated
  <1>4. CASE \E m \in Macs, on \in BOOLEAN : SetCarrier(m, on)
    BY <1>4 DEF SetCarrier, QueueTypeOK, NoneGated
  <1>5. CASE \E S \in SUBSET Macs : StopQueues(S)
    BY <1>5 DEF StopQueues, Stopped, QueueTypeOK, NoneGated
  <1>6. CASE \E S \in SUBSET Macs : WakeQueues(S, "forced")
    BY <1>6 DEF WakeQueues, Woken, QueueTypeOK, NoneGated
  <1>7. CASE StopDma \/ StartDma \/ \E on \in BOOLEAN : SetStopFlag(on)
    BY <1>7 DEF StopDma, StartDma, SetStopFlag, QueueTypeOK, NoneGated
  <1> QED BY <1>1, <1>2, <1>3, <1>4, <1>5, <1>6, <1>7 DEF NotGate

(* A wake by the switch module keeps the types (swi_7port.c:726, 1074).    *)
LEMMA GateFacts ==
    ASSUME QueueTypeOK, NEW S \in SUBSET Macs, WakeQueues(S, "gated")
    PROVE  QueueTypeOK'
BY DEF WakeQueues, Woken, QueueTypeOK

(* Stopping every queue leaves none that the switch woke                   *)
(* (swi_7port.c:631-640).                                                  *)
LEMMA StopAllFacts == StopQueues(Macs) => NoneGated'
BY DEF StopQueues, Stopped, NoneGated

(* Before the switch has reported a link nothing runs on its word          *)
(* (avmnet_config.c:1412-1450).                                            *)
LEMMA QueueInitFacts ==
    ASSUME NEW opened \in SUBSET Macs, QueueInit(opened)
    PROVE  QueueTypeOK /\ NoneGated
BY DEF QueueInit, QueueTypeOK, NoneGated
=============================================================================
