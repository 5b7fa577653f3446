------------------------------- MODULE DynBuf -------------------------------
(* The memory that the receive ring and the transmit pages of the SDIO and   *)
(* USB buses share. The firmware narrows the ring to lend its upper part to  *)
(* the transmit pages and expands it again to take that part back; the host  *)
(* follows in two receive indications, with the state of rx_buf_state.       *)
(* SdioTx uses the pages of this exchange and RxBuf the geometry.            *)
EXTENDS Integers

CONSTANTS SmallPages,   \* transmit pages while the ring is large
          DynaPages     \* the pages that are lent

ASSUME PagesAssumption == SmallPages \in Nat \ {0} /\ DynaPages \in Nat \ {0}

LargePages == SmallPages + DynaPages

\* The flags of rx_buf_state. BUFFER_STATUS is NARROW or EXPAND; FW_NARROW and
\* FW_EXPAND remember the last status the firmware showed.
BufFlags == { "NARROW", "EXPAND", "UPDATE", "NOTIFY", "EXPEND_FINSH",
              "TX_USED", "FW_NARROW", "FW_EXPAND" }
BufStatus == { "NARROW", "EXPAND" }
FwStatus  == { "FW_NARROW", "FW_EXPAND" }

InitBufState == { "FW_EXPAND" }

\* aml_pci_ack_irq: a status that differs from the last one starts a switch
AckStatus(st, status) ==
    IF status \in st THEN st
    ELSE (st \ FwStatus) \cup { status, IF status = "FW_NARROW" THEN "NARROW" ELSE "EXPAND" }

\* aml_sdio_dynamic_buffer_check: the first indication of a switch reads with
\* the old geometry and returns early, the second adopts the new one
FirstOfSwitch(st)  == st \cap BufStatus # {} /\ "UPDATE" \notin st
SecondOfSwitch(st) == st \cap BufStatus # {} /\ "UPDATE" \in st
CheckState(st) ==
    IF FirstOfSwitch(st) THEN st \cup {"UPDATE"}
    ELSE IF SecondOfSwitch(st)
         THEN (st \ (BufStatus \cup {"UPDATE"}))
                \cup { IF "NARROW" \in st THEN "NOTIFY" ELSE "EXPEND_FINSH" }
         ELSE st
NarrowDone(st) == SecondOfSwitch(st) /\ "NARROW" \in st
ExpandDone(st) == SecondOfSwitch(st) /\ "NARROW" \notin st

\* aml_trigger_rst_rxd: what the host tells the firmware with its read position,
\* and the flags that this clears
Told(st) ==
    (IF "NARROW" \in st THEN {"REDUCE_READ"} ELSE {})
    \cup (IF "NOTIFY" \in st THEN {"REDUCE_FINSH"} ELSE {})
    \cup (IF "EXPAND" \in st THEN {"ENLARGE_READ"} ELSE {})
    \cup (IF "EXPEND_FINSH" \in st THEN {"ENLARGE_FINSH"} ELSE {})
TriggerState(st) ==
    st \ ({"NOTIFY", "EXPEND_FINSH"} \cup (IF "EXPEND_FINSH" \in st THEN {"TX_USED"} ELSE {}))

\* The transmit pages after it, of tx_page_free_num and tx_page_tot_num
TriggerFree(st, n) == IF "EXPAND" \in st THEN n - DynaPages ELSE n
TriggerTot(st, n) ==
    IF "EXPAND" \in st THEN SmallPages ELSE IF "NARROW" \in st THEN LargePages ELSE n
=============================================================================
