------------------------------ MODULE MCDfxMng ------------------------------
(* Instances of DfxMng for TLC: two regions, the DMA and one streamer, and  *)
(* session tables of the shapes the notebooks write.                       *)
EXTENDS DfxMngRuns

MCSlot == 0 .. 2
MCStream == {0, 1}
MCRegion == {"r0", "r1"}
MCRM == {0, 1}
MCRegionOf == [m \in MCRM |-> IF m = 0 THEN "r0" ELSE "r1"]

Row(recon, exec, load, store, next) ==
  [ src_addr |-> 0, src_size |-> IF DMA \in load THEN 1 ELSE 0,
    des_addr |-> 0, des_size |-> IF DMA \in store THEN 1 ELSE 0,
    recon_select |-> recon, exec_select |-> exec, load_mask |-> load,
    store_mask |-> store, complete_mask |-> {}, next_session |-> next ]

(* Region r1 is reconfigured while r0 executes, as hls4ml_2_region_4_rm.    *)
Pipelined ==
  [ s \in MCSlot |->
      CASE s = 0 -> Row({0}, {}, {}, {}, 1)
        [] s = 1 -> Row({1}, {0}, {0}, {1}, 2)
        [] s = 2 -> Row({}, {1}, {1}, {0}, 0) ]

(* Two RMs in turn in one region, as hls4ml_1_region_2_rm: each session     *)
(* either reconfigures or executes.                                        *)
OneRegionSlot == 0 .. 3
OneRegionOf == [m \in MCRM |-> "r0"]
Alternating ==
  [ s \in OneRegionSlot |->
      CASE s = 0 -> Row({0}, {}, {}, {}, 1)
        [] s = 1 -> Row({}, {0}, {0}, {1}, 2)
        [] s = 2 -> Row({1}, {}, {}, {}, 3)
        [] s = 3 -> Row({}, {1}, {1}, {0}, 0) ]

(* One accelerator between DMA and DMA: every round is the same session.   *)
Looping ==
  [ s \in MCSlot |->
      CASE s = 0 -> Row({0}, {}, {}, {}, 1)
        [] s = 1 -> Row({}, {0}, {0}, {0}, 1)
        [] s = 2 -> Row({}, {}, {}, {}, 0) ]

Rounds(last, n) ==
  [ last_session |-> last, amt_query |-> n, amt_query_per_iter |-> 1, intr_ena |-> TRUE ]

(* The loop again, in the rows of Alternating but for row 1.                *)
LoopingOf4 == [Alternating EXCEPT ![1].store_mask = {0}, ![1].des_size = 1,
                                  ![1].next_session = 1]

(* One table with one bank 0.                                              *)
PipelinedProgram == {Pipelined}
LoopingProgram   == {Looping}
OneRound  == {Rounds(2, 1)}
TwoRounds == {Rounds(2, 2)}
TwoLoops  == {Rounds(1, 2)}
NoRounds  == {Rounds(1, 0)}
AnyJob    == Programs \X Configs

(* One round of Alternating, or two or three of the loop.                  *)
OneRegionPrograms == {Alternating, LoopingOf4}
OneRegionConfigs  == {Rounds(3, 1), Rounds(1, 2), Rounds(1, 3)}
OneRegionJobs == {<<Alternating, Rounds(3, 1)>>}
                   \cup ({LoopingOf4} \X {Rounds(1, 2), Rounds(1, 3)})

AllCommands == Cmd
StartOnly == {"START"}
StartShutdown == {"START", "SHUTDOWN"}
NoReads == {}
ReadsRow2 == {2}
=============================================================================
