------------------------------ MODULE CsrTable ------------------------------
(***************************************************************************)
(* The register map of the core (iob_eth.py): names, reset values, and who *)
(* keeps each register.                                                    *)
(***************************************************************************)
EXTENDS Naturals

(* Registers kept by the generated CSR block: name |-> reset value. *)
ModeRegs == [moder |-> 40960, int_mask |-> 0, ipgt |-> 18, ipgr1 |-> 12,
             ipgr2 |-> 18, packetlen |-> 4195840, collconf |-> 61443,
             ctrlmoder |-> 0]

MiiRegs == [miimoder |-> 100, miicommand |-> 0, miiaddress |-> 0,
            miitx_data |-> 0, miirx_data |-> 0]

AddrRegs == [mac_addr0 |-> 0, mac_addr1 |-> 0, eth_hash0_adr |-> 0,
             eth_hash1_adr |-> 0, eth_txctrl |-> 0]

(* Registers kept by the core itself, type NOAUTO: each access is a        *)
(* valid/ready handshake, and a read is answered with rvalid.              *)
CoreRegs == {"int_source", "tx_bd_num", "miistatus"}
NoDmaRegs == {"tx_bd_cnt", "rx_bd_cnt", "tx_word_cnt", "rx_word_cnt",
              "rx_nbytes", "frame_word"}
BdRegs == {"bd"}

(* Those that software can only look at, and whose values change nothing:  *)
(* the values are left out.                                                *)
StatusRegs == {"miistatus", "tx_bd_cnt", "rx_bd_cnt", "tx_word_cnt", "rx_word_cnt"}

(* Registers whose _rd port loops back the _wr port of the CSR block ...   *)
ModePorts == {"moder", "int_mask", "ipgt", "ipgr1", "ipgr2", "packetlen",
              "collconf", "ctrlmoder"}
MiiPorts == {"miimoder", "miicommand", "miiaddress", "miitx_data",
             "miirx_data"}
AddrPorts == {"mac_addr0", "mac_addr1", "eth_hash0_adr", "eth_hash1_adr",
              "eth_txctrl"}

(* ... without a write strobe from the core: only software changes them.   *)
(* (MIICOMMAND and MIIRX_DATA are those of module MiiMgmt.)                *)
SwRegs == (ModePorts \cup MiiPorts \cup AddrPorts)
            \ {"miicommand", "miirx_data"}

ResetValue(r) ==
  IF r \in ModePorts THEN ModeRegs[r]
  ELSE IF r \in MiiPorts THEN MiiRegs[r] ELSE AddrRegs[r]
=============================================================================
