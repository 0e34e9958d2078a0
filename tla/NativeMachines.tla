--------------------------- MODULE NativeMachines ---------------------------
(***************************************************************************)
(* The rest of modules/components/: engines, machines, networks, maps and  *)
(* thermal parts.                                                          *)
(***************************************************************************)
EXTENDS NativeComponents

(* engine.py; a fixed scale is a number. *)
EngineSimpleEfficiencyModule == Balances(NoParams,
    <<"fuel_m_dot_kg_s", "LHV_J_kg", "brake_power_W", "thermal_efficiency", "torque_Nm", "omega_rad_s">>,
    <<<<Loc("brake_power_W") \ominus (Loc("torque_Nm") \otimes Loc("omega_rad_s")), "residual_scale_power_W">>,
      <<Loc("brake_power_W") \ominus (Loc("thermal_efficiency") \otimes Loc("fuel_m_dot_kg_s") \otimes Loc("LHV_J_kg")),
        "residual_scale_power_W">>>>)
EngineBSFCMapModule == Native(
    WithScales(Grid("speed_points_rad_s", "torque_points_Nm", "bsfc_values_kg_J"),
               {"residual_scale_power_W", "residual_scale_fuel_kg_s"}), <<>>,
    {"speed_rad_s", "torque_Nm", "brake_power_W", "fuel_m_dot_kg_s", "bsfc_kg_J"}, <<
    Read(<<"speed_rad_s", "torque_Nm", "brake_power_W", "fuel_m_dot_kg_s", "bsfc_kg_J">>),
    Map2D("mapped_bsfc", "speed_rad_s", "torque_Nm", "speed_points_rad_s", "torque_points_Nm", "bsfc_values_kg_J"),
    Yield(<<
      Rec("equation", Loc("brake_power_W") \ominus (Loc("torque_Nm") \otimes Loc("speed_rad_s")),
          Par("residual_scale_power_W")),
      Rec("equation", Loc("fuel_m_dot_kg_s") \ominus (Loc("mapped_bsfc") \otimes Loc("brake_power_W")),
          Par("residual_scale_fuel_kg_s")),
      Rec("equation", Loc("bsfc_kg_J") \ominus Loc("mapped_bsfc"), Num(1))>>)>>)

(* engine_aftertreatment.py *)
EngineTorqueMapModule == Stepwise(Grid("speed_points_rad_s", "load_points", "torque_values_Nm"),
    <<"speed_rad_s", "load_command", "torque_Nm">>,
    <<Map2D("expected", "speed_rad_s", "load_command", "speed_points_rad_s", "load_points", "torque_values_Nm")>>,
    <<<<Loc("torque_Nm") \ominus Loc("expected"), "residual_scale_Nm">>>>)
EngineAirFuelRatioModule == Stepwise([denominator_min_abs |-> Default("positive", 1)],
    <<"m_dot_air_kg_s", "m_dot_fuel_kg_s", "AFR">>,
    <<Ask(<<"checked">>, "check_denominator", <<Loc("m_dot_fuel_kg_s"), Par("denominator_min_abs")>>)>>,
    <<<<Loc("AFR") \ominus (Loc("m_dot_air_kg_s") \oslash Loc("m_dot_fuel_kg_s")), "residual_scale">>>>)
EngineVolumetricEfficiencyModule == Single([displacement_m3_per_rev |-> Given("positive", 1)],
    <<"speed_rev_s", "rho_air_kg_m3", "m_dot_air_kg_s", "volumetric_efficiency">>,
    Loc("m_dot_air_kg_s") \ominus (Loc("volumetric_efficiency") \otimes Loc("rho_air_kg_m3")
        \otimes Par("displacement_m3_per_rev") \otimes Loc("speed_rev_s")), "residual_scale_kg_s")
EngineExhaustHeatFlowModule == Single([cp_exhaust_J_kgK |-> Default("positive", 2)],
    <<"m_dot_exhaust_kg_s", "T_exhaust_K", "T_ref_K", "Q_exhaust_W">>,
    Loc("Q_exhaust_W") \ominus (Loc("m_dot_exhaust_kg_s") \otimes Par("cp_exhaust_J_kgK")
        \otimes (Loc("T_exhaust_K") \ominus Loc("T_ref_K"))), "residual_scale_W")
EGRMixingModule == Stepwise([denominator_min_abs |-> Default("positive", 1)],
    <<"m_dot_fresh_air_kg_s", "T_fresh_air_K", "m_dot_egr_kg_s", "T_egr_K", "m_dot_mixed_kg_s", "T_mixed_K", "egr_fraction">>,
    <<Ask(<<"checked">>, "check_denominator", <<Loc("m_dot_mixed_kg_s"), Par("denominator_min_abs")>>)>>,
    <<<<(Loc("m_dot_mixed_kg_s") \ominus Loc("m_dot_fresh_air_kg_s")) \ominus Loc("m_dot_egr_kg_s"),
        "mass_residual_scale_kg_s">>,
      <<(Loc("T_mixed_K") \otimes Loc("m_dot_mixed_kg_s"))
        \ominus ((Loc("T_fresh_air_K") \otimes Loc("m_dot_fresh_air_kg_s")) \oplus (Loc("T_egr_K") \otimes Loc("m_dot_egr_kg_s"))),
        "energy_residual_scale_kgK_s">>,
      <<Loc("egr_fraction") \ominus (Loc("m_dot_egr_kg_s") \oslash Loc("m_dot_mixed_kg_s")),
        "fraction_residual_scale">>>>)
TurboPowerBalanceModule == Single(NoParams, <<"P_turbine_W", "P_compressor_W", "mechanical_efficiency">>,
    Loc("P_compressor_W") \ominus (Loc("mechanical_efficiency") \otimes Loc("P_turbine_W")), "residual_scale_W")
HeatedMass(in, out) == Single([C_J_K |-> Given("positive", 1), dt_s |-> Given("positive", 1)],
    <<"T_previous_K", "T_current_K", in, out>>,
    (Loc("T_current_K") \ominus Loc("T_previous_K"))
        \ominus (((Loc(in) \ominus Loc(out)) \otimes Par("dt_s")) \oslash Par("C_J_K")), "residual_scale_K")
CatalystThermalMassStepModule == HeatedMass("Q_exhaust_in_W", "Q_loss_W")
AftertreatmentPressureDropModule == Single([K_Pa_per_kg2_s2 |-> Given("nonneg", 2)],
    <<"p_in_Pa", "p_out_Pa", "m_dot_exhaust_kg_s">>,
    (Loc("p_in_Pa") \ominus Loc("p_out_Pa")) \ominus (Par("K_Pa_per_kg2_s2") \otimes Loc("m_dot_exhaust_kg_s")
        \otimes Abs(Loc("m_dot_exhaust_kg_s"))), "residual_scale_Pa")

(***************************************************************************)
(* fluid_machines.py: values read into a literal dictionary, helpers that  *)
(* refuse, and one that returns two results.                               *)
(***************************************************************************)
Compressor == <<"p_in_Pa", "p_out_Pa", "T_in_K", "T_out_K", "m_dot_kg_s", "P_shaft_W", "pressure_ratio", "efficiency">>
Gas == [cp_J_kgK |-> Default("positive", 1), gamma |-> Default("positive", 2),
        denominator_min_abs |-> Default("positive", 1)]
Compression == <<
    Ask(<<"ratio">>, "_safe_pressure_ratio", <<Loc("p_in_Pa"), Loc("p_out_Pa"), Par("denominator_min_abs")>>),
    Ask(<<"t_out_expected", "power_expected">>, "_compressor_temperature_power",
        <<Loc("T_in_K"), Loc("m_dot_kg_s"), Loc("efficiency"), Loc("ratio"), Par("cp_J_kgK"), Par("gamma")>>)>>
Compressed == <<
    <<Loc("pressure_ratio") \ominus Loc("ratio"), "residual_scale_pressure_ratio">>,
    <<Loc("T_out_K") \ominus Loc("t_out_expected"), "residual_scale_temperature_K">>,
    <<Loc("P_shaft_W") \ominus Loc("power_expected"), "residual_scale_power_W">>>>
MoreThanOne(m) == [m EXCEPT !.needs = <<Par("gamma") \succ Num(1)>>]
CompressorSimpleModule == MoreThanOne(Stepwise(Gas, Compressor, Compression, Compressed))
CompressorMaps ==
    More(Grid("speed_points", "flow_points", "pressure_ratio_values"), [efficiency_values |-> Given("table", 0)])
CompressorMapSimpleModule == MoreThanOne(Stepwise(More(Gas, CompressorMaps),
    <<"corrected_speed", "corrected_mass_flow">> \o Compressor,
    <<Map2D("mapped_pr", "corrected_speed", "corrected_mass_flow", "speed_points", "flow_points", "pressure_ratio_values"),
      Map2D("mapped_eff", "corrected_speed", "corrected_mass_flow", "speed_points", "flow_points", "efficiency_values")>>
    \o Compression,
    <<<<Loc("pressure_ratio") \ominus Loc("mapped_pr"), "residual_scale_pressure_ratio">>,
      <<Loc("efficiency") \ominus Loc("mapped_eff"), "residual_scale_map">>>> \o Compressed))
PumpPower(delta_p) == (((delta_p) \otimes Loc("m_dot_kg_s")) \oslash Par("rho_kg_m3")) \oslash Loc("safe_efficiency")
SafeEfficiency == Ask(<<"safe_efficiency">>, "_safe_efficiency", <<Loc("efficiency")>>)
PumpSimpleModule == Stepwise([rho_kg_m3 |-> Default("positive", 1)],
    <<"p_in_Pa", "p_out_Pa", "m_dot_kg_s", "P_shaft_W", "efficiency">>, <<SafeEfficiency>>,
    <<<<Loc("P_shaft_W") \ominus PumpPower(Loc("p_out_Pa") \ominus Loc("p_in_Pa")), "residual_scale_power_W">>>>)
PumpMapSimpleModule == Stepwise(
    More(Grid("speed_points", "flow_points", "delta_p_values"),
         [efficiency_values |-> Given("table", 0), rho_kg_m3 |-> Default("positive", 1)]),
    <<"speed_rad_s", "m_dot_kg_s", "delta_p_Pa", "efficiency", "P_shaft_W">>,
    <<Map2D("mapped_delta_p", "speed_rad_s", "m_dot_kg_s", "speed_points", "flow_points", "delta_p_values"),
      Map2D("mapped_efficiency", "speed_rad_s", "m_dot_kg_s", "speed_points", "flow_points", "efficiency_values"),
      SafeEfficiency>>,
    <<<<Loc("delta_p_Pa") \ominus Loc("mapped_delta_p"), "residual_scale_pressure_Pa">>,
      <<Loc("efficiency") \ominus Loc("mapped_efficiency"), "residual_scale_efficiency">>,
      <<Loc("P_shaft_W") \ominus PumpPower(Loc("delta_p_Pa")), "residual_scale_power_W">>>>)

(* fluid_network.py *)
Drop(k) == Stepwise(k, <<"p_in_Pa", "p_out_Pa", "m_dot_kg_s">>,
    <<Let("velocity", Loc("m_dot_kg_s") \oslash Par("rho_kg_m3"))>>,
    <<<<(Loc("p_in_Pa") \ominus Loc("p_out_Pa")) \ominus (Fn(<<Par("friction_factor"), Par("length_m"), Par("diameter_m"), Par("K_minor")>>)
          \otimes Par("rho_kg_m3") \otimes Loc("velocity") \otimes Abs(Loc("velocity"))), "residual_scale_Pa">>>>)
PipeSegmentSimpleModule == Drop([rho_kg_m3 |-> Given("positive", 1), diameter_m |-> Given("positive", 1),
    length_m |-> Given("nonneg", 2), friction_factor |-> Default("nonneg", 2), K_minor |-> Default("nonneg", 0)])
DuctSegmentSimpleModule == Stepwise(
    [rho_kg_m3 |-> Given("positive", 1), area_m2 |-> Given("positive", 1), K_total |-> Given("nonneg", 2)],
    <<"p_in_Pa", "p_out_Pa", "m_dot_kg_s">>,
    <<Let("velocity", Loc("m_dot_kg_s") \oslash (Par("rho_kg_m3") \otimes Par("area_m2")))>>,
    <<<<(Loc("p_in_Pa") \ominus Loc("p_out_Pa")) \ominus (Par("K_total") \otimes Par("rho_kg_m3")
          \otimes Loc("velocity") \otimes Abs(Loc("velocity"))), "residual_scale_Pa">>>>)
LumpedGasVolumeStepModule == Single([volume_m3 |-> Given("positive", 1), dt_s |-> Given("positive", 1)],
    <<"p_previous_Pa", "p_current_Pa", "T_K", "n_dot_in_mol_s", "n_dot_out_mol_s">>,
    (Loc("p_current_Pa") \ominus Loc("p_previous_Pa")) \ominus ((Loc("T_K") \oslash Par("volume_m3"))
        \otimes (Loc("n_dot_in_mol_s") \ominus Loc("n_dot_out_mol_s")) \otimes Par("dt_s")), "residual_scale_Pa")
LumpedLiquidVolumeStepModule == Single([dt_s |-> Given("positive", 1)],
    <<"mass_previous_kg", "mass_current_kg", "m_dot_in_kg_s", "m_dot_out_kg_s">>,
    (Loc("mass_current_kg") \ominus Loc("mass_previous_kg"))
        \ominus ((Loc("m_dot_in_kg_s") \ominus Loc("m_dot_out_kg_s")) \otimes Par("dt_s")), "residual_scale_kg")
FlowSplitModule == Balances(NoParams, <<"m_dot_in_kg_s", "m_dot_out_1_kg_s", "m_dot_out_2_kg_s", "split_fraction">>,
    <<<<Loc("m_dot_out_1_kg_s") \ominus (Loc("split_fraction") \otimes Loc("m_dot_in_kg_s")), "residual_scale_kg_s">>,
      <<Loc("m_dot_out_2_kg_s") \ominus ((Num(1) \ominus Loc("split_fraction")) \otimes Loc("m_dot_in_kg_s")),
        "residual_scale_kg_s">>,
      <<(Loc("m_dot_in_kg_s") \ominus Loc("m_dot_out_1_kg_s")) \ominus Loc("m_dot_out_2_kg_s"), "residual_scale_kg_s">>>>)
Mixed2(out, t, m1, t1, m2, t2) ==
    (Loc(out) \otimes Loc(t)) \ominus ((Loc(m1) \otimes Loc(t1)) \oplus (Loc(m2) \otimes Loc(t2)))
FlowMergeTemperatureModule == Balances(NoParams,
    <<"m_dot_1_kg_s", "T_1_K", "m_dot_2_kg_s", "T_2_K", "m_dot_out_kg_s", "T_out_K">>,
    <<<<(Loc("m_dot_out_kg_s") \ominus Loc("m_dot_1_kg_s")) \ominus Loc("m_dot_2_kg_s"), "mass_residual_scale_kg_s">>,
      <<Mixed2("m_dot_out_kg_s", "T_out_K", "m_dot_1_kg_s", "T_1_K", "m_dot_2_kg_s", "T_2_K"),
        "energy_residual_scale_kgK_s">>>>)
CheckValveSimpleModule == Native(
    And([leakage_tolerance_kg_s |-> Default("nonneg", 0), pressure_tolerance_Pa |-> Default("nonneg", 0)],
        "residual_scale_kg_s"), <<>>, {"p_upstream_Pa", "p_downstream_Pa", "m_dot_kg_s"}, <<
    Read(<<"p_upstream_Pa", "p_downstream_Pa", "m_dot_kg_s">>),
    Let("violation", Pick(Both((Loc("p_upstream_Pa") \oplus Par("pressure_tolerance_Pa")) \prec Loc("p_downstream_Pa"),
                               Loc("m_dot_kg_s") \succ Par("leakage_tolerance_kg_s")),
                          Loc("m_dot_kg_s") \ominus Par("leakage_tolerance_kg_s"), Num(0))),
    Checks(<<<<Loc("violation"), Par("residual_scale_kg_s")>>>>)>>)
ThrottleValveSimpleModule == Stepwise([CdA_max_m2 |-> Given("positive", 1), rho_kg_m3 |-> Given("positive", 1)],
    <<"p_upstream_Pa", "p_downstream_Pa", "m_dot_kg_s", "opening">>,
    <<Let("cda", Par("CdA_max_m2") \otimes Loc("opening"))>>,
    <<<<(Loc("m_dot_kg_s") \otimes Loc("m_dot_kg_s")) \ominus (Par("rho_kg_m3") \otimes Fn(<<Loc("cda")>>)
          \otimes (Loc("p_upstream_Pa") \ominus Loc("p_downstream_Pa"))), "residual_scale_kg2_s2">>>>)
PressureReliefValveCheckModule == Native(
    Scaled([flow_tolerance_kg_s |-> Default("nonneg", 0), pressure_tolerance_Pa |-> Default("positive", 1)]), <<>>,
    {"p_upstream_Pa", "p_set_Pa", "m_dot_relief_kg_s"}, <<
    Read(<<"p_upstream_Pa", "p_set_Pa", "m_dot_relief_kg_s">>),
    Let("residual", Num(0)),
    When(Both(Loc("p_upstream_Pa") \prec (Loc("p_set_Pa") \ominus Par("pressure_tolerance_Pa")),
              Loc("m_dot_relief_kg_s") \succ Par("flow_tolerance_kg_s")),
      <<Let("residual", Loc("m_dot_relief_kg_s") \oslash High(Par("flow_tolerance_kg_s"), Num(1)))>>, <<
      When(Both(Loc("p_upstream_Pa") \succ (Loc("p_set_Pa") \oplus Par("pressure_tolerance_Pa")),
                Loc("m_dot_relief_kg_s") \preceq Par("flow_tolerance_kg_s")),
        <<Let("residual", (Loc("p_upstream_Pa") \ominus Loc("p_set_Pa"))
                          \oslash High(Par("pressure_tolerance_Pa"), Num(1)))>>, <<>>)>>),
    Checks(<<<<Loc("residual"), Par("residual_scale")>>>>)>>)
LeakOrBypassLinearModule == Single([conductance_kg_s_Pa |-> Given("nonneg", 2)],
    <<"p_upstream_Pa", "p_downstream_Pa", "m_dot_kg_s">>,
    Loc("m_dot_kg_s") \ominus (Par("conductance_kg_s_Pa") \otimes (Loc("p_upstream_Pa") \ominus Loc("p_downstream_Pa"))),
    "residual_scale_kg_s")

(* maps.py *)
LookupTable2DModule == Stepwise(Grid("x_points", "y_points", "z_values"), <<"x", "y", "z">>,
    <<Map2D("expected", "x", "y", "x_points", "y_points", "z_values")>>,
    <<<<Loc("z") \ominus Loc("expected"), "residual_scale">>>>)
EfficiencyMap2DModule == Stepwise(Grid("x_points", "y_points", "efficiency_values"), <<"x", "y", "efficiency">>,
    <<Map2D("expected", "x", "y", "x_points", "y_points", "efficiency_values")>>,
    <<<<Loc("efficiency") \ominus Loc("expected"), "residual_scale">>>>)

(* thermal_components.py: a stream loses heat, an exchanger carries it. *)
Exchanger(params, cp, q, m, in, out, sink) == Balances(params, <<m, in, out, sink, q>>,
    <<<<Loc(q) \ominus (Loc(m) \otimes Par(cp) \otimes (Loc(in) \ominus Loc(out))), "residual_scale_heat_W">>,
      <<Loc(q) \ominus (Par("UA_W_K") \otimes (Loc(in) \ominus Loc(sink))), "residual_scale_heat_W">>>>)
RadiatorSimpleModule == Exchanger([cp_coolant_J_kgK |-> Default("positive", 2), UA_W_K |-> Given("nonneg", 2)],
    "cp_coolant_J_kgK", "Q_rejected_W", "m_dot_coolant_kg_s", "T_coolant_in_K", "T_coolant_out_K", "T_air_in_K")
RadiatorFanSimpleModule == Balances(
    [max_air_m_dot_kg_s |-> Given("nonneg", 2), max_fan_power_W |-> Given("nonneg", 2)],
    <<"fan_command", "air_m_dot_kg_s", "fan_power_W">>,
    <<<<Loc("air_m_dot_kg_s") \ominus (Par("max_air_m_dot_kg_s") \otimes Loc("fan_command")), "residual_scale_flow_kg_s">>,
      <<Loc("fan_power_W") \ominus (Par("max_fan_power_W") \otimes Fn(<<Loc("fan_command")>>)), "residual_scale_power_W">>>>)
HumidifierEffectivenessModule == Balances([effectiveness |-> Given("fraction", 1)],
    <<"m_dot_dry_air_kg_s", "humidity_ratio_in_kg_kg", "humidity_ratio_out_kg_kg", "humidity_ratio_target_kg_kg", "water_transfer_kg_s">>,
    <<<<Loc("humidity_ratio_out_kg_kg") \ominus (Loc("humidity_ratio_in_kg_kg") \oplus (Par("effectiveness")
          \otimes (Loc("humidity_ratio_target_kg_kg") \ominus Loc("humidity_ratio_in_kg_kg")))), "residual_scale_humidity_ratio">>,
      <<Loc("water_transfer_kg_s") \ominus (Loc("m_dot_dry_air_kg_s") \otimes
          (Loc("humidity_ratio_out_kg_kg") \ominus Loc("humidity_ratio_in_kg_kg"))), "residual_scale_water_kg_s">>>>)
IntercoolerSimpleModule == Exchanger([cp_gas_J_kgK |-> Default("positive", 2), UA_W_K |-> Given("nonneg", 2)],
    "cp_gas_J_kgK", "Q_removed_W", "m_dot_gas_kg_s", "T_gas_in_K", "T_gas_out_K", "T_coolant_or_ambient_K")

(* thermal_management.py; parameters set by a conditional have no single origin. *)
ColdPlateSimpleModule == Balances(
    [cp_coolant_J_kgK |-> Default("positive", 2), UA_W_K |-> Unclaimed(Given("nonneg", 2))],
    <<"m_dot_coolant_kg_s", "T_coolant_in_K", "T_coolant_out_K", "T_surface_K", "Q_removed_W">>,
    <<<<Loc("Q_removed_W") \ominus (Loc("m_dot_coolant_kg_s") \otimes Par("cp_coolant_J_kgK")
          \otimes (Loc("T_coolant_out_K") \ominus Loc("T_coolant_in_K"))), "residual_scale_heat_W">>,
      <<Loc("Q_removed_W") \ominus (Par("UA_W_K") \otimes (Loc("T_surface_K") \ominus Loc("T_coolant_in_K"))),
        "residual_scale_heat_W">>>>)
ThermalMassStepModule == HeatedMass("Q_in_W", "Q_out_W")
ThermostatValveModule == [Stepwise(
    [T_begin_open_K |-> Unclaimed(Given("positive", 1)), T_full_open_K |-> Unclaimed(Given("positive", 2))],
    <<"T_control_K", "opening">>,
    <<Let("expected", Pick(Loc("T_control_K") \preceq Par("T_begin_open_K"), Num(0),
          Pick(Loc("T_control_K") \succeq Par("T_full_open_K"), Num(1),
               (Loc("T_control_K") \ominus Par("T_begin_open_K")) \oslash (Par("T_full_open_K") \ominus Par("T_begin_open_K")))))>>,
    <<<<Loc("opening") \ominus Loc("expected"), "residual_scale">>>>)
    EXCEPT !.needs = <<Par("T_begin_open_K") \prec Par("T_full_open_K")>>]
ThreeWayValveMixingModule == Balances(NoParams,
    <<"m_dot_in_1_kg_s", "T_in_1_K", "m_dot_in_2_kg_s", "T_in_2_K", "m_dot_out_kg_s", "T_out_K", "split_fraction">>,
    <<<<Loc("m_dot_in_1_kg_s") \ominus (Loc("split_fraction") \otimes Loc("m_dot_out_kg_s")), "mass_residual_scale_kg_s">>,
      <<Loc("m_dot_in_2_kg_s") \ominus ((Num(1) \ominus Loc("split_fraction")) \otimes Loc("m_dot_out_kg_s")),
        "mass_residual_scale_kg_s">>,
      <<Mixed2("m_dot_out_kg_s", "T_out_K", "m_dot_in_1_kg_s", "T_in_1_K", "m_dot_in_2_kg_s", "T_in_2_K"),
        "energy_residual_scale_kgK_s">>>>)
ChillerSimpleModule == Single(NoParams, <<"Q_cooling_W", "P_electric_W", "COP">>,
    Loc("Q_cooling_W") \ominus (Loc("COP") \otimes Loc("P_electric_W")), "residual_scale_W")
ExpansionTankSimpleModule == Single(NoParams, <<"volume_liquid_m3", "volume_total_m3", "fill_fraction">>,
    Loc("volume_liquid_m3") \ominus (Loc("fill_fraction") \otimes Loc("volume_total_m3")), "residual_scale_m3")

(* The modules of these files, as default_module_registry registers them. *)
MachineModules ==
    [EngineSimpleEfficiencyModule |-> EngineSimpleEfficiencyModule,
     EngineBSFCMapModule |-> EngineBSFCMapModule, EngineTorqueMapModule |-> EngineTorqueMapModule,
     EngineAirFuelRatioModule |-> EngineAirFuelRatioModule,
     EngineVolumetricEfficiencyModule |-> EngineVolumetricEfficiencyModule,
     EngineExhaustHeatFlowModule |-> EngineExhaustHeatFlowModule, EGRMixingModule |-> EGRMixingModule,
     TurboPowerBalanceModule |-> TurboPowerBalanceModule,
     CatalystThermalMassStepModule |-> CatalystThermalMassStepModule,
     AftertreatmentPressureDropModule |-> AftertreatmentPressureDropModule,
     CompressorSimpleModule |-> CompressorSimpleModule,
     CompressorMapSimpleModule |-> CompressorMapSimpleModule, PumpSimpleModule |-> PumpSimpleModule,
     PumpMapSimpleModule |-> PumpMapSimpleModule, PipeSegmentSimpleModule |-> PipeSegmentSimpleModule,
     DuctSegmentSimpleModule |-> DuctSegmentSimpleModule,
     LumpedGasVolumeStepModule |-> LumpedGasVolumeStepModule,
     LumpedLiquidVolumeStepModule |-> LumpedLiquidVolumeStepModule, FlowSplitModule |-> FlowSplitModule,
     FlowMergeTemperatureModule |-> FlowMergeTemperatureModule,
     CheckValveSimpleModule |-> CheckValveSimpleModule,
     ThrottleValveSimpleModule |-> ThrottleValveSimpleModule,
     PressureReliefValveCheckModule |-> PressureReliefValveCheckModule,
     LeakOrBypassLinearModule |-> LeakOrBypassLinearModule, LookupTable2DModule |-> LookupTable2DModule,
     EfficiencyMap2DModule |-> EfficiencyMap2DModule, RadiatorSimpleModule |-> RadiatorSimpleModule,
     RadiatorFanSimpleModule |-> RadiatorFanSimpleModule,
     HumidifierEffectivenessModule |-> HumidifierEffectivenessModule,
     IntercoolerSimpleModule |-> IntercoolerSimpleModule, ColdPlateSimpleModule |-> ColdPlateSimpleModule,
     ThermalMassStepModule |-> ThermalMassStepModule, ThermostatValveModule |-> ThermostatValveModule,
     ThreeWayValveMixingModule |-> ThreeWayValveMixingModule, ChillerSimpleModule |-> ChillerSimpleModule,
     ExpansionTankSimpleModule |-> ExpansionTankSimpleModule]
=============================================================================
