---------------------------- MODULE MCMngDriver ----------------------------
(* Instances of MngDriver for TLC: two sessions, one region, the DMA.       *)
EXTENDS MngDriver, TLC

MCSlot == 0 .. 1
MCStream == {0}
MCRegion == {"r0"}
MCRM == {0, 1}
(* Of the twelve columns of the driver's list, an address (which a run may  *)
(* change) and an RM select (which set_slot checks).                       *)
MCfields == <<"src_addr", "exec_select">>
MCReports == {}
MCRegionOf == [m \in MCRM |-> "r0"]

Row(addr, recon, exec, load, store, next) ==
  [ src_addr |-> addr, src_size |-> 0, des_addr |-> addr, des_size |-> 0,
    recon_select |-> recon, exec_select |-> exec, load_mask |-> load,
    store_mask |-> store, complete_mask |-> {}, next_session |-> next ]

Table == (0 :> Row(0, {0}, {}, {}, {}, 1)) @@ (1 :> Row(1, {}, {0}, {}, {}, 1))
MCTables == {Table}
MCSettings0 == {[last_session |-> 1, amt_query |-> 2, amt_query_per_iter |-> 2,
                 intr_ena |-> FALSE]}

C(op) == [ op |-> op, slot |-> 0, field |-> "next_session", new |-> Table[0],
           reg |-> REG_AMT_QUERY, n |-> 2, cmd |-> "SHUTDOWN" ]

Asking == {C("get_main_state"), C("print_slot_data")}
Writing == {[C("set_whole_slot") EXCEPT !.slot = 1, !.new = Row(2, {}, {}, {}, {}, 0)],
            [C("set_whole_slot") EXCEPT !.slot = 1, !.new = Row(2, {}, {0, 1}, {}, {}, 0)],
            [C("set_bank0") EXCEPT !.n = 3], C("set_bank0")}
Commanding == {C("start_engine"), C("control"), [C("control") EXCEPT !.cmd = "CLEAR"]}

AllCalls == Asking \cup Writing \cup Commanding
HaltCalls == {C("get_main_state"), C("start_engine"), C("control")}
=============================================================================
