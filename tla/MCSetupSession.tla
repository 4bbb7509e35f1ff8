--------------------------- MODULE MCSetupSession ---------------------------
(* Two pictures, one mask; each option has values other than its default one.   *)
EXTENDS SetupSession

MCMasks == {<<"src", "mask">>}

MCOffered ==
    [filter |-> {"lanczos3"}, palette |-> {<<"palette", "real">>}, height |-> {100},
     brightness |-> {10}, contrast |-> {-10}, gamma |-> {800}, saturation |-> {40},
     vibrance |-> {20}, predistance |-> {"yuv"}, dither |-> {"knoll"},
     dither_val |-> {500}, dither_rand |-> {200},
     objective |-> {"source"}, distance |-> {"oklab"},
     details_mode |-> {"normalized", "refined"}, details_val |-> {3000},
     details_floor |-> {10}, details_feather |-> {0}, details_refine_mix |-> {0},
     details_score |-> {FALSE}, details_allocate |-> {TRUE},
     details_global_period |-> {2},
     optimizer |-> {"dlas"}, solutions |-> {500}, init |-> {"smart"},
     unstuck_after |-> {100000}, unstuck_drift |-> {5}, seed |-> {7},
     onoff |-> {<<"src", "onoff">>},
     dual |-> {TRUE}, first_dual_steps |-> {5000}, after_dual_steps |-> {"generate"},
     altering_dual_steps |-> {700}, dual_blending |-> {"rgb"}, dual_luma |-> {0},
     dual_chroma |-> {0}, dual_dither |-> {"knoll"}, dual_dither_val |-> {250},
     dual_dither_rand |-> {500},
     threads |-> {1}, cache |-> {128000}, max_evals |-> {1000}, save |-> {5000},
     continue |-> {TRUE}, preprocess |-> {TRUE}]

MCTyped == {<<"a", 1, "run">>}

MCLaunches ==
    {<<<<"livegui">>, <<"input", <<"src", "a">>>>>>,
     <<<<"", <<"src", "a">>>>, <<"distance", "yuv">>, <<"threads", 9>>, <<"dual">>>>}

=============================================================================
