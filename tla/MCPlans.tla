------------------------------- MODULE MCPlans ------------------------------
(***************************************************************************)
(* Every plan and preprocessor with small arguments.  The rows a plan must *)
(* record are written out here from what its documentation says it visits, *)
(* not from the operators the plan is built with.                          *)
(***************************************************************************)
EXTENDS PlanMachine

MCMotors == {"x", "y"}
MCAt0    == [m \in MCMotors |-> IF m = "x" THEN 4 ELSE 12]
MCStageable == {"d", "x"}

Entry(name, items, rows, restores) ==
  [name |-> name, items |-> items, rows |-> rows, restores |-> restores, dead |-> "-", ramps |-> FALSE]

D  == <<"d">>
XY == {"x", "y"}

\* Reference trajectories.
Rows1(vs)     == [i \in DOMAIN vs |-> <<vs[i]>>]
Empty(n)      == [i \in 1 .. n |-> <<>>]
Raster(xs, ys) == FlattenSeq([i \in DOMAIN xs |-> [j \in DOMAIN ys |-> <<xs[i], ys[j]>>]])
Snake(xs, ys)  == FlattenSeq([i \in DOMAIN xs |-> [j \in DOMAIN ys |->
                    <<xs[i], ys[IF i % 2 = 1 THEN j ELSE Len(ys) + 1 - j]>>]])
Shift(rows, dx, dy) == [i \in DOMAIN rows |-> <<rows[i][1] + dx, rows[i][2] + dy>>]

\* The square spiral over 3 by 2 cells with steps 4 and 8, walked by hand.
Square32 == <<<<8, 24>>, <<12, 24>>, <<12, 16>>, <<8, 16>>, <<4, 16>>, <<4, 24>>>>

Steps(ss) == [i \in DOMAIN ss |-> [step |-> ss[i], back |-> FALSE]]

MCCatalogue == {
  Entry("count", Count(D, 2), Empty(2), {}),
  Entry("count0", Count(D, 0), <<>>, {}),
  Entry("count_delays", CountDelayed(D, 3, <<1, 1>>, OneShot(D, D)), Empty(3), {}),
  Entry("count_few_delays", CountDelayed(D, 3, <<1>>, OneShot(D, D)), <<>>, {}),
  Entry("count_with_trigger", CountWithTrigger(D, D, 2), Empty(2), {}),
  Entry("one_shot_run", RunWrapper(OneShot(<<"d", "d">>, <<"d", "d">>)), Empty(1), {}),
  Entry("scan", InnerProductCore(D, <<"x", "y">>, 3, <<[s |-> 0, e |-> 8], [s |-> 6, e |-> 2]>>),
        <<<<0, 6>>, <<4, 4>>, <<8, 2>>>>, {}),
  Entry("scan_1d", Scan1d(D, "x", 8, 0, 3), Rows1(<<8, 4, 0>>), {}),
  Entry("scan_1d_one", Scan1d(D, "x", 8, 0, 1), Rows1(<<8>>), {}),
  Entry("list_scan", ListScan(D, "x", <<3, 3, 1>>), Rows1(<<3, 3, 1>>), {}),
  Entry("list_scan_nd", ListScanNd(D, <<"x", "y">>, <<<<1, 1, 2, 1>>, <<5, 6, 6, 5>>>>),
        <<<<1, 5>>, <<1, 6>>, <<2, 6>>, <<1, 5>>>>, {}),
  Entry("list_scan_uneven", ListScanNd(D, <<"x", "y">>, <<<<1, 1>>, <<5>>>>), <<>>, {}),
  Entry("rel_scan", RelScan(D, "x", 4, -2, 2, 3), Rows1(<<2, 4, 6>>), {}),
  Entry("x2x", X2xScan(D, "x", "y", 0, 8, 2), <<<<4, 12>>, <<12, 16>>>>, {}),
  Entry("grid", GridScanSnake(D, "x", 0, 4, 3, "y", 10, 30, 3, FALSE), Raster(<<0, 2, 4>>, <<10, 20, 30>>), {}),
  Entry("grid_snake", GridScanSnake(D, "x", 0, 4, 3, "y", 10, 30, 3, TRUE), Snake(<<0, 2, 4>>, <<10, 20, 30>>), {}),
  Entry("list_grid", ListGridScanSnake(D, <<"x", "y">>, <<<<0, 2, 4>>, <<10, 20>>>>, "none"),
        Raster(<<0, 2, 4>>, <<10, 20>>), {}),
  Entry("list_grid_snake", ListGridScanSnake(D, <<"x", "y">>, <<<<0, 2, 4>>, <<10, 20, 30>>>>, "all"),
        Snake(<<0, 2, 4>>, <<10, 20, 30>>), {}),
  Entry("outer_product", ScanNdWithMd(D, <<"x", "y">>,
          OuterProductSnake(<<[s |-> 0, e |-> 2, n |-> 2], [s |-> 3, e |-> 9, n |-> 3]>>, <<TRUE, TRUE>>)),
        Snake(<<0, 2>>, <<3, 6, 9>>), {}),
  Entry("rel_list_scan", RelListScan(D, "x", <<-1, 1>>, MCAt0, "-"), Rows1(<<3, 5>>), {"x"}),
  [Entry("rel_list_scan_dead", RelListScan(D, "x", <<-1, 1>>, MCAt0, "x"), Rows1(<<-1, 1>>), {}) EXCEPT !.dead = "x"],
  Entry("rel_list_grid", RelListGridScan(<<>>, <<"x", "y">>, <<<<0, 1>>, <<2, 3>>>>, MCAt0, "-"),
        Shift(Raster(<<0, 1>>, <<2, 3>>), 4, 12), XY),
  Entry("rel_grid", RelGridScan(<<>>, "x", 0, 2, 2, "y", 0, 2, 2, MCAt0, "-"),
        Shift(Raster(<<0, 2>>, <<0, 2>>), 4, 12), XY),
  Entry("rel_log", RelLogScan(D, "x", <<1, 10>>, TRUE), Rows1(<<5, 14>>), {"x"}),
  Entry("rel_log_signs", RelLogScan(D, "x", <<1, 10>>, FALSE), <<>>, {"x"}),
  Entry("spiral_square", SpiralSquare(D, "x", "y", 8, 20, 8, 8, 3, 2), Square32, {}),
  Entry("rel_spiral_square", RelSpiralSquare(<<>>, "x", "y", 8, 20, 8, 8, 3, 2), Shift(Square32, 4, 12), XY),
  Entry("rel_spiral", RelSpiral(<<>>, "x", "y", <<<<1, 2>>, <<3, 2>>>>), <<<<5, 14>>, <<7, 14>>>>, XY),
  Entry("adaptive", AdaptiveScan(D, "x", 0, 10, 2, 6, Steps(<<2, 4, 6, 6>>)), Rows1(<<0, 2, 6>>), {}),
  Entry("rel_adaptive", RelAdaptiveScan(D, "x", 0, 4, 2, 6,
          <<[step |-> 3, back |-> FALSE], [step |-> 2, back |-> TRUE], [step |-> 6, back |-> FALSE]>>, MCAt0, "-"),
        Rows1(<<4, 7, 6>>), {"x"}),
  Entry("tune_centroid", TuneCentroid(D, "x", 0, 16, 3, 3, 2, TRUE, <<8, 4, 4>>),
        Rows1(<<0, 8, 16, 12, 8, 4>>), {}),
  [Entry("ramp", RampPlan(<<SetTo("x", 9, "ramp")>>, "s", Point("primary", D), TRUE, 2, FALSE, TRUE), Empty(4), {})
     EXCEPT !.ramps = TRUE],
  [Entry("ramp_late", RampPlan(<<SetTo("x", 9, "ramp")>>, "s", Point("primary", D), TRUE, 1, TRUE, TRUE), <<>>, {})
     EXCEPT !.ramps = TRUE],
  Entry("fly", Fly(<<"f", "g">>), <<>>, {}),
  Entry("fly_none", Fly(<<>>), <<>>, {}),
  Entry("collect", RunWrapper(KickoffAll(<<"f">>, "k", TRUE) \o CollectWhileCompleting(<<"f">>, <<"f">>, 2)), <<>>, {}),
  Entry("supplemental", SupplementalApply(Count(D, 1), <<"f">>, <<"s", "t">>, <<"y">>), Empty(1), {}),
  Entry("lazily", LazilyStageWrapper(RunWrapper(OneShot(D, <<"d", "x">>)), <<"d", "x">>), <<<<4>>>>, {}),
  Entry("guarded", SuspendWrapper(RewindableWrapper(RunWrapper(ReadShot(D)), FALSE), "sus"), Empty(1), {}),
  Entry("emptyguard", RewindableWrapper(FinalizeWrapper(<<>>, <<Plain("null")>>), FALSE), <<>>, {}),
  Entry("repeat", Pchain(<<ConfigureCountTimeWrapper(RunWrapper(Repeat(TriggerAndRead(D, D, "primary"), 2, TRUE)), D),
                           StubWrapper(MvMany(<<[m |-> "x", to |-> 7], [m |-> "y", to |-> 8]>>)),
                           MvrMany(<<[m |-> "x", to |-> 1]>>, MCAt0, "-"), RelSet("y", 1, MCAt0, "-", "later"),
                           Prepare("f", "p", TRUE)>>), Empty(2), {}),
  Entry("stub_run", StubWrapper(Count(D, 1)), <<>>, {})
}
=============================================================================
