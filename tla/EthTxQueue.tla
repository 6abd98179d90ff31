----------------------------- MODULE EthTxQueue -----------------------------
(***************************************************************************)
(* The transmit side of the Ethernet datapath: the kernel's queue and      *)
(* carrier state of each network device, the DMA transmit ring they share  *)
(* and the interrupts and the watchdog that stop and wake the queues.      *)
(* A queue is "stopped" or it runs; a running queue remembers who woke it: *)
(* "gated" by the switch module, which first looks at the suspend counter, *)
(* the stop flag and the ring, "forced" by anyone who looks at nothing.    *)
(***************************************************************************)
EXTENDS AvmnetModule

CONSTANTS
    E5Watchdog,   \* the watchdog handler is that of the E5 datapath driver
    FirstDevs     \* the devices at the first two places of g_eth_net_dev

ASSUME WatchdogAssumption == E5Watchdog \in BOOLEAN /\ FirstDevs \subseteq Macs

VARIABLES
    queue,         \* __QUEUE_STATE_DRV_XOFF of each device, and who cleared it
    carrier,       \* netif_carrier_ok
    txFull,        \* AVMNET_DEVICE_FLAG_DMA_TX_QUEUE_FULL (set on all devices at once)
    txIrq,         \* the transmit channel's completion interrupt is enabled
    dmaUp,         \* the DMA device is registered and its channels are open
    stopDatapath   \* g_stop_datapath

queueVars == <<queue, carrier, txFull, txIrq, dmaUp, stopDatapath>>

QueueTypeOK ==
    /\ queue \in [Macs -> {"stopped", "gated", "forced"}]
    /\ carrier \in [Macs -> BOOLEAN]
    /\ txFull \in BOOLEAN
    /\ txIrq \in BOOLEAN
    /\ dmaUp \in BOOLEAN
    /\ stopDatapath \in BOOLEAN

(* The devices of opened have been opened, none has seen a link yet.       *)
QueueInit(opened) ==
    /\ queue = [m \in Macs |-> IF m \in opened THEN "forced" ELSE "stopped"]
    /\ carrier = [m \in Macs |-> FALSE]
    /\ txFull = FALSE
    /\ txIrq = FALSE
    /\ dmaUp = TRUE
    /\ stopDatapath = FALSE

(* netif_stop_queue and netif_wake_queue on the devices of S; waking a     *)
(* queue that runs changes nothing.                                        *)
Stopped(S) == [m \in Macs |-> IF m \in S THEN "stopped" ELSE queue[m]]
Woken(S, how) ==
    [m \in Macs |-> IF m \in S /\ queue[m] = "stopped" THEN how ELSE queue[m]]

(* The part of the switch module's wake condition that the datapath owns.  *)
MayTransmit(m) == queue[m] = "stopped" /\ ~stopDatapath /\ ~txFull

(* TX_BUF_FULL_INT: eth_xmit, which drops everything under the stop flag,  *)
(* handed a frame of a running queue to a full ring.                       *)
TxBufFull ==
    /\ dmaUp /\ ~stopDatapath
    /\ \E m \in Macs : queue[m] # "stopped"
    /\ txFull' = TRUE
    /\ txIrq' = TRUE
    /\ queue' = Stopped(Macs)
    /\ UNCHANGED <<carrier, dmaUp, stopDatapath>>

(* TRANSMIT_CPT_INT: descriptors are free again.  Wakes every device.      *)
TransmitCpt ==
    /\ dmaUp /\ txIrq
    /\ txIrq' = FALSE
    /\ txFull' = FALSE
    /\ queue' = Woken(Macs, "forced")
    /\ UNCHANGED <<carrier, dmaUp, stopDatapath>>

(* Mutant of TxTimeout: the handler forgets to wake the queue.             *)
TxTimeoutWithoutWake(m, running) ==
    /\ dmaUp /\ running /\ carrier[m] /\ queue[m] = "stopped"
    /\ txIrq' = FALSE
    /\ UNCHANGED <<queue, carrier, txFull, dmaUp, stopDatapath>>

(* The kernel's transmit watchdog found the queue of a running device with *)
(* carrier stopped for too long: disable the interrupt, wake the queue and *)
(* leave the full flag as it is.  The handler of the E5 driver wakes the   *)
(* first two devices, whichever it was called for.                         *)
TxTimeout(m, running) ==
    /\ dmaUp /\ running /\ carrier[m] /\ queue[m] = "stopped"
    /\ txIrq' = FALSE
    /\ queue' = Woken(IF E5Watchdog THEN FirstDevs ELSE {m}, "forced")
    /\ UNCHANGED <<carrier, txFull, dmaUp, stopDatapath>>

SetCarrier(m, on) ==
    /\ carrier' = [carrier EXCEPT ![m] = on]
    /\ UNCHANGED <<queue, txFull, txIrq, dmaUp, stopDatapath>>

StopQueues(S) ==
    /\ queue' = Stopped(S)
    /\ UNCHANGED <<carrier, txFull, txIrq, dmaUp, stopDatapath>>

WakeQueues(S, how) ==
    /\ queue' = Woken(S, how)
    /\ UNCHANGED <<carrier, txFull, txIrq, dmaUp, stopDatapath>>

(* stop_7port_dma_gracefully and the release of the DMA device.            *)
StopDma ==
    /\ stopDatapath' = TRUE
    /\ dmaUp' = FALSE
    /\ txIrq' = FALSE
    /\ UNCHANGED <<queue, carrier, txFull>>

StartDma ==
    /\ dmaUp' = TRUE
    /\ UNCHANGED <<queue, carrier, txFull, txIrq, stopDatapath>>

SetStopFlag(on) ==
    /\ stopDatapath' = on
    /\ UNCHANGED <<queue, carrier, txFull, txIrq, dmaUp>>
=============================================================================
