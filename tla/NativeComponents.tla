-------------------------- MODULE NativeComponents --------------------------
(***************************************************************************)
(* The engineering components: modules/components/, but for its control    *)
(* files.  Physical constants and numeric factors are 1, a power is Fn.    *)
(***************************************************************************)
EXTENDS Formulas

(* A method without branches: read the owned variables, return equations,  *)
(* each a value and the parameter that scales it.                          *)
WithScales(params, scales) ==
    [n \in DOMAIN params \union scales |-> IF n \in scales THEN Default("positive", 1) ELSE params[n]]
Records(pairs) == Yield([i \in DOMAIN pairs |-> Rec("equation", pairs[i][1], Par(pairs[i][2]))])
Balances(params, names, pairs) ==
    Native(WithScales(params, {pairs[i][2] : i \in DOMAIN pairs}), <<>>, Named(names),
           <<Read(names), Records(pairs)>>)
(* The same after statements between the reads and the records.            *)
Stepwise(params, names, steps, pairs) ==
    Native(WithScales(params, {pairs[i][2] : i \in DOMAIN pairs}), <<>>, Named(names),
           <<Read(names)>> \o steps \o <<Records(pairs)>>)
Single(params, names, value, scale) == Balances(params, names, <<<<value, scale>>>>)
Checks(values) == Yield([i \in DOMAIN values |-> Rec("post_check", values[i][1], values[i][2])])
Cells == [n_cells |-> Given("positive", 1), faradaic_efficiency |-> Unclaimed(Default("efficiency", 1))]
(* A two-dimensional map over the tables of two parameters.                *)
Grid(x, y, z) ==
    [p \in {x, y, z, "extrapolation"} |-> IF p = "extrapolation" THEN Default("mode", 0) ELSE Given("table", 0)]
Map2D(to, a, b, x, y, z) == Ask(<<to>>, "bilinear_interp", <<Loc(a), Loc(b), Par(x), Par(y), Par(z), Par("extrapolation")>>)
Curve(x, y) ==
    [p \in {x, y, "extrapolation"} |-> IF p = "extrapolation" THEN Default("mode", 0) ELSE Given("table", 0)]
Map1D(to, a, x, y) == Ask(<<to>>, "one_d_interp", <<Loc(a), Par(x), Par(y), Par("extrapolation")>>)
More(a, b) == [p \in DOMAIN a \union DOMAIN b |-> IF p \in DOMAIN a THEN a[p] ELSE b[p]]

-----------------------------------------------------------------------------
(* battery_hv.py; sign_convention 0 is discharge_positive. *)
Discharge == Par("sign_convention") \doteq Num(0)
SignConvention == [sign_convention |-> Default("mode", 0)]
BatterySOCStepModule == Stepwise(
    More(SignConvention, [capacity_C |-> Given("positive", 1), dt_s |-> Given("positive", 1),
                          coulombic_efficiency |-> Default("efficiency", 1)]),
    <<"SOC_previous", "SOC_current", "current_A">>,
    <<Let("delta", (Par("coulombic_efficiency") \otimes Loc("current_A") \otimes Par("dt_s")) \oslash Par("capacity_C")),
      Let("expected", Pick(Discharge, Loc("SOC_previous") \ominus Loc("delta"), Loc("SOC_previous") \oplus Loc("delta")))>>,
    <<<<Loc("SOC_current") \ominus Loc("expected"), "residual_scale_SOC">>>>)
BatteryOCVMapModule == Stepwise(Curve("SOC_points", "OCV_points_V"), <<"SOC", "OCV_V">>,
    <<Map1D("expected", "SOC", "SOC_points", "OCV_points_V")>>,
    <<<<Loc("OCV_V") \ominus Loc("expected"), "residual_scale_V">>>>)
BatteryInternalResistanceModule == Stepwise(SignConvention,
    <<"OCV_V", "current_A", "terminal_voltage_V", "R_ohm", "heat_generation_W">>,
    <<Let("expected_v", Pick(Discharge, Loc("OCV_V") \ominus (Loc("current_A") \otimes Loc("R_ohm")),
                                        Loc("OCV_V") \oplus (Loc("current_A") \otimes Loc("R_ohm"))))>>,
    <<<<Loc("terminal_voltage_V") \ominus Loc("expected_v"), "residual_scale_V">>,
      <<Loc("heat_generation_W") \ominus (Loc("current_A") \otimes Loc("current_A") \otimes Loc("R_ohm")),
        "residual_scale_heat_W">>>>)
BatteryPackPowerModule == Stepwise(SignConvention, <<"terminal_voltage_V", "current_A", "power_W">>,
    <<Let("discharge_positive_current", Pick(Discharge, Loc("current_A"), Num(0) \ominus Loc("current_A")))>>,
    <<<<Loc("power_W") \ominus (Loc("terminal_voltage_V") \otimes Loc("discharge_positive_current")),
        "residual_scale_W">>>>)
BatteryPowerLimitCheckModule == Native(
    And([max_discharge_power_W |-> Given("nonneg", 0), max_charge_power_W |-> Given("nonneg", 0),
         SOC_min |-> Default("finite", 0), SOC_max |-> Default("finite", 2),
         T_min_K |-> Default("finite", 0), T_max_K |-> Default("finite", 2)], "residual_scale_W"),
    <<Par("SOC_min") \prec Par("SOC_max"), Par("T_min_K") \prec Par("T_max_K")>>,
    {"power_W", "SOC", "temperature_K"}, <<
    Read(<<"power_W", "SOC", "temperature_K">>),
    Let("discharge", High(Loc("power_W") \ominus Par("max_discharge_power_W"), Num(0))),
    Let("charge", High((Num(0) \ominus Par("max_charge_power_W")) \ominus Loc("power_W"), Num(0))),
    Let("soc_res", Excess("SOC", "SOC_min", "SOC_max")),
    Let("temp_res", Excess("temperature_K", "T_min_K", "T_max_K")),
    Checks(<<<<Loc("discharge"), Par("residual_scale_W")>>, <<Loc("charge"), Par("residual_scale_W")>>,
             <<Loc("soc_res"), Num(1)>>, <<Loc("temp_res"), Num(1)>>>>)>>)
HVBusPowerBalanceModule == Native(
    And([source_power_variables |-> Given("names", 0), load_power_variables |-> Given("names", 0),
         storage_power_variables |-> Unclaimed(Default("names", 0))], "residual_scale_W"), <<>>,
    {"source", "load", "storage"}, <<
    Let("residual", (Total("source_power_variables", <<"source">>) \ominus Total("load_power_variables", <<"load">>))
                    \ominus Total("storage_power_variables", <<"storage">>)),
    Yield(<<Rec("equation", Loc("residual"), Par("residual_scale_W"))>>)>>)
ChargerSimpleModule == Single(NoParams, <<"P_grid_W", "P_battery_W", "efficiency">>,
    Loc("P_battery_W") \ominus (Loc("efficiency") \otimes Loc("P_grid_W")), "residual_scale_W")

(* drivetrain_vehicle.py *)
GearboxSimpleModule == Balances([gear_ratio |-> Given("positive", 1)],
    <<"omega_in_rad_s", "torque_in_Nm", "omega_out_rad_s", "torque_out_Nm", "efficiency">>,
    <<<<Loc("omega_out_rad_s") \ominus (Loc("omega_in_rad_s") \oslash Par("gear_ratio")), "residual_scale_speed">>,
      <<Loc("torque_out_Nm") \ominus (Loc("torque_in_Nm") \otimes Par("gear_ratio") \otimes Loc("efficiency")),
        "residual_scale_torque">>,
      <<(Loc("torque_in_Nm") \otimes Loc("omega_in_rad_s") \otimes Loc("efficiency"))
        \ominus (Loc("torque_out_Nm") \otimes Loc("omega_out_rad_s")), "residual_scale_power_W">>>>)
WheelTorqueForceModule == Native(
    And([denominator_min_abs |-> Default("positive", 1)], "residual_scale_N"), <<>>,
    {"wheel_torque_Nm", "wheel_radius_m", "longitudinal_force_N"}, <<
    Read(<<"wheel_torque_Nm", "wheel_radius_m">>),
    Ask(<<"checked">>, "check_denominator", <<Loc("wheel_radius_m"), Par("denominator_min_abs")>>),
    Read(<<"longitudinal_force_N">>),
    Records(<<<<Loc("longitudinal_force_N") \ominus (Loc("wheel_torque_Nm") \oslash Loc("wheel_radius_m")),
                "residual_scale_N">>>>)>>)
VehicleRoadLoadModule == Single(
    [mass_kg |-> Given("positive", 1), C0_N |-> Default("finite", 0), C1_N_s_m |-> Default("finite", 0),
     C2_N_s2_m2 |-> Default("finite", 0), g_m_s2 |-> Default("positive", 1)],
    <<"vehicle_speed_m_s", "road_grade_rad", "road_load_force_N">>,
    Loc("road_load_force_N") \ominus (Par("C0_N") \oplus (Par("C1_N_s_m") \otimes Loc("vehicle_speed_m_s"))
        \oplus (Par("C2_N_s2_m2") \otimes Loc("vehicle_speed_m_s") \otimes Abs(Loc("vehicle_speed_m_s")))
        \oplus (Par("mass_kg") \otimes Par("g_m_s2") \otimes Fn(<<Loc("road_grade_rad")>>))), "residual_scale_N")
VehicleLongitudinalDynamicsStepModule == Single(
    [mass_kg |-> Given("positive", 1), dt_s |-> Given("positive", 1)],
    <<"speed_previous_m_s", "speed_current_m_s", "drive_force_N", "brake_force_N", "road_load_force_N">>,
    Loc("speed_current_m_s") \ominus (Loc("speed_previous_m_s") \oplus
        ((((Loc("drive_force_N") \ominus Loc("brake_force_N")) \ominus Loc("road_load_force_N"))
          \oslash Par("mass_kg")) \otimes Par("dt_s"))), "residual_scale_m_s")
BrakeSimpleModule == Single(NoParams, <<"brake_force_N", "vehicle_speed_m_s", "brake_power_W">>,
    Loc("brake_power_W") \ominus (Loc("brake_force_N") \otimes Loc("vehicle_speed_m_s")), "residual_scale_W")
RegenerativeBrakeSplitModule == Balances(NoParams,
    <<"brake_power_total_W", "regen_power_W", "friction_brake_power_W", "regen_fraction">>,
    <<<<Loc("regen_power_W") \ominus (Loc("regen_fraction") \otimes Loc("brake_power_total_W")), "residual_scale_W">>,
      <<Loc("friction_brake_power_W") \ominus ((Num(1) \ominus Loc("regen_fraction")) \otimes Loc("brake_power_total_W")),
        "residual_scale_W">>,
      <<(Loc("brake_power_total_W") \ominus Loc("regen_power_W")) \ominus Loc("friction_brake_power_W"),
        "residual_scale_W">>>>)

(* electric.py; a scale that is a product of parameters is one of them. *)
ElectricMotorSimpleModule == Balances([residual_scale_efficiency |-> Default("positive", 1)],
    <<"voltage_V", "current_A", "electrical_power_W", "torque_Nm", "omega_rad_s", "mechanical_power_W", "efficiency">>,
    <<<<Loc("electrical_power_W") \ominus (Loc("voltage_V") \otimes Loc("current_A")), "residual_scale_power_W">>,
      <<Loc("mechanical_power_W") \ominus (Loc("torque_Nm") \otimes Loc("omega_rad_s")), "residual_scale_power_W">>,
      <<Loc("mechanical_power_W") \ominus (Loc("efficiency") \otimes Loc("electrical_power_W")),
        "residual_scale_power_W">>>>)
ElectricMotorMapModule == Stepwise(Grid("torque_points", "omega_points", "efficiency_values"),
    <<"torque_Nm", "omega_rad_s", "efficiency", "electrical_power_W", "mechanical_power_W">>,
    <<Map2D("expected_efficiency", "torque_Nm", "omega_rad_s", "torque_points", "omega_points", "efficiency_values")>>,
    <<<<Loc("efficiency") \ominus Loc("expected_efficiency"), "residual_scale_efficiency">>,
      <<Loc("mechanical_power_W") \ominus (Loc("torque_Nm") \otimes Loc("omega_rad_s")), "residual_scale_power_W">>,
      <<Loc("mechanical_power_W") \ominus (Loc("efficiency") \otimes Loc("electrical_power_W")),
        "residual_scale_power_W">>>>)
DCDCConverterSimpleModule == Balances(NoParams,
    <<"V_in_V", "I_in_A", "P_in_W", "V_out_V", "I_out_A", "P_out_W", "efficiency">>,
    <<<<Loc("P_in_W") \ominus (Loc("V_in_V") \otimes Loc("I_in_A")), "residual_scale_power_W">>,
      <<Loc("P_out_W") \ominus (Loc("V_out_V") \otimes Loc("I_out_A")), "residual_scale_power_W">>,
      <<Loc("P_out_W") \ominus (Loc("efficiency") \otimes Loc("P_in_W")), "residual_scale_power_W">>>>)
InverterSimpleModule == Single(NoParams, <<"P_dc_W", "P_ac_W", "efficiency">>,
    Loc("P_ac_W") \ominus (Loc("efficiency") \otimes Loc("P_dc_W")), "residual_scale_power_W")

(***************************************************************************)
(* electrochemical_bop.py; the efficiency is read by a helper, and a       *)
(* conditional molar mass has no single origin.                            *)
(***************************************************************************)
Faraday == Par("faradaic_efficiency") \otimes Par("n_cells") \otimes Loc("current_A")
FuelCellCathodeAirSupplyModule == Balances(
    More(Cells, [oxygen_mole_fraction |-> Default("efficiency", 1),
                 molar_mass_air_kg_mol |-> Unclaimed(Default("positive", 1))]),
    <<"current_A", "n_dot_O2_consumed_mol_s", "n_dot_air_feed_mol_s", "m_dot_air_feed_kg_s", "oxygen_stoichiometry">>,
    <<<<Loc("n_dot_O2_consumed_mol_s") \ominus Faraday, "residual_scale_mol_s">>,
      <<Loc("n_dot_air_feed_mol_s") \ominus ((Loc("oxygen_stoichiometry") \otimes Loc("n_dot_O2_consumed_mol_s"))
          \oslash Par("oxygen_mole_fraction")), "residual_scale_mol_s">>,
      <<Loc("m_dot_air_feed_kg_s") \ominus (Loc("n_dot_air_feed_mol_s") \otimes Par("molar_mass_air_kg_mol")),
        "residual_scale_kg_s">>>>)
FuelCellAnodeHydrogenSupplyModule == Balances(More(Cells, [molar_mass_H2_kg_mol |-> Default("positive", 1)]),
    <<"current_A", "n_dot_H2_consumed_mol_s", "n_dot_H2_feed_mol_s", "m_dot_H2_feed_kg_s", "hydrogen_stoichiometry">>,
    <<<<Loc("n_dot_H2_consumed_mol_s") \ominus Faraday, "residual_scale_mol_s">>,
      <<Loc("n_dot_H2_feed_mol_s") \ominus (Loc("hydrogen_stoichiometry") \otimes Loc("n_dot_H2_consumed_mol_s")),
        "residual_scale_mol_s">>,
      <<Loc("m_dot_H2_feed_kg_s") \ominus (Loc("n_dot_H2_feed_mol_s") \otimes Par("molar_mass_H2_kg_mol")),
        "residual_scale_kg_s">>>>)
FuelCellAnodeRecirculationModule == Single([denominator_min_abs |-> Unclaimed(Default("positive", 1))],
    <<"m_dot_fresh_H2_kg_s", "m_dot_recirculation_kg_s", "recirculation_ratio">>,
    Loc("m_dot_recirculation_kg_s") \ominus (Loc("recirculation_ratio") \otimes Loc("m_dot_fresh_H2_kg_s")),
    "residual_scale_kg_s")
CoolantInterface == Single([cp_coolant_J_kgK |-> Default("positive", 2)],
    <<"Q_stack_heat_W", "m_dot_coolant_kg_s", "T_coolant_in_K", "T_coolant_out_K">>,
    Loc("Q_stack_heat_W") \ominus (Loc("m_dot_coolant_kg_s") \otimes Par("cp_coolant_J_kgK")
        \otimes (Loc("T_coolant_out_K") \ominus Loc("T_coolant_in_K"))), "residual_scale_W")
FuelCellCoolantInterfaceModule == CoolantInterface
FuelCellSystemEfficiencyModule == Stepwise([denominator_min_abs |-> Default("positive", 1)],
    <<"P_stack_W", "P_aux_W", "P_net_W", "m_dot_H2_kg_s", "LHV_H2_J_kg", "efficiency">>,
    <<Let("denom", Loc("m_dot_H2_kg_s") \otimes Loc("LHV_H2_J_kg")),
      When(Abs(Loc("denom")) \prec Par("denominator_min_abs"), <<Stop>>, <<>>)>>,
    <<<<Loc("P_net_W") \ominus (Loc("P_stack_W") \ominus Loc("P_aux_W")), "residual_scale_power_W">>,
      <<Loc("efficiency") \ominus (Loc("P_net_W") \oslash Loc("denom")), "residual_scale_efficiency">>>>)
ElectrolyzerWaterFeedModule == Balances(More(Cells, [molar_mass_H2O_kg_mol |-> Default("positive", 1)]),
    <<"current_A", "n_dot_H2O_consumed_mol_s", "m_dot_H2O_consumed_kg_s">>,
    <<<<Loc("n_dot_H2O_consumed_mol_s") \ominus Faraday, "residual_scale_mol_s">>,
      <<Loc("m_dot_H2O_consumed_kg_s") \ominus (Loc("n_dot_H2O_consumed_mol_s") \otimes Par("molar_mass_H2O_kg_mol")),
        "residual_scale_kg_s">>>>)
ElectrolyzerGasProductionModule == Balances(
    More(Cells, [molar_mass_H2_kg_mol |-> Default("positive", 1), molar_mass_O2_kg_mol |-> Default("positive", 2)]),
    <<"current_A", "n_dot_H2_mol_s", "n_dot_O2_mol_s", "m_dot_H2_kg_s", "m_dot_O2_kg_s">>,
    <<<<Loc("n_dot_H2_mol_s") \ominus Faraday, "residual_scale_mol_s">>,
      <<Loc("n_dot_O2_mol_s") \ominus Faraday, "residual_scale_mol_s">>,
      <<Loc("m_dot_H2_kg_s") \ominus (Loc("n_dot_H2_mol_s") \otimes Par("molar_mass_H2_kg_mol")), "residual_scale_kg_s">>,
      <<Loc("m_dot_O2_kg_s") \ominus (Loc("n_dot_O2_mol_s") \otimes Par("molar_mass_O2_kg_mol")), "residual_scale_kg_s">>>>)
ElectrolyzerCoolingInterfaceModule == CoolantInterface
GasSeparatorSimpleModule == Balances(NoParams,
    <<"m_dot_in_kg_s", "m_dot_gas_out_kg_s", "m_dot_liquid_out_kg_s", "gas_mass_fraction_in", "separation_efficiency">>,
    <<<<Loc("m_dot_gas_out_kg_s") \ominus (Loc("separation_efficiency") \otimes Loc("gas_mass_fraction_in")
          \otimes Loc("m_dot_in_kg_s")), "residual_scale_kg_s">>,
      <<Loc("m_dot_liquid_out_kg_s") \ominus (Loc("m_dot_in_kg_s") \ominus Loc("m_dot_gas_out_kg_s")),
        "residual_scale_kg_s">>>>)

(* electrochemical_components.py: the two stacks differ in the sign of the heat. *)
Stack(h2, o2, water, heat) == Balances(
    [n_cells |-> Given("positive", 1), E_thermoneutral_V |-> Default("positive", 2),
     faradaic_efficiency |-> Default("efficiency", 1)],
    <<"current_A", "V_cell_V", "V_stack_V", "P_stack_W", h2, o2, water, "Q_heat_W">>,
    <<<<Loc("V_stack_V") \ominus (Par("n_cells") \otimes Loc("V_cell_V")), "residual_scale_voltage_V">>,
      <<Loc("P_stack_W") \ominus (Par("n_cells") \otimes Loc("current_A") \otimes Loc("V_cell_V")), "residual_scale_power_W">>,
      <<Loc(h2) \ominus Faraday, "residual_scale_mol_s">>, <<Loc(o2) \ominus Faraday, "residual_scale_mol_s">>,
      <<Loc(water) \ominus Faraday, "residual_scale_mol_s">>,
      <<Loc("Q_heat_W") \ominus (Par("n_cells") \otimes Loc("current_A") \otimes heat), "residual_scale_power_W">>>>)
FuelCellStackBalanceModule ==
    Stack("n_dot_H2_consumed_mol_s", "n_dot_O2_consumed_mol_s", "n_dot_H2O_produced_mol_s",
          Par("E_thermoneutral_V") \ominus Loc("V_cell_V"))
ElectrolyzerStackBalanceModule ==
    Stack("n_dot_H2_produced_mol_s", "n_dot_O2_produced_mol_s", "n_dot_H2O_consumed_mol_s",
          Loc("V_cell_V") \ominus Par("E_thermoneutral_V"))
Polarization == Stepwise(Curve("current_density_points_A_m2", "V_cell_points_V"),
    <<"current_density_A_m2", "V_cell_V">>,
    <<Map1D("expected", "current_density_A_m2", "current_density_points_A_m2", "V_cell_points_V")>>,
    <<<<Loc("V_cell_V") \ominus Loc("expected"), "residual_scale_V">>>>)
FuelCellPolarizationMapModule == Polarization
ElectrolyzerPolarizationMapModule == Polarization

(* The modules of these files, as default_module_registry registers them. *)
ComponentModules ==
    [BatterySOCStepModule |-> BatterySOCStepModule, BatteryOCVMapModule |-> BatteryOCVMapModule,
     BatteryInternalResistanceModule |-> BatteryInternalResistanceModule,
     BatteryPackPowerModule |-> BatteryPackPowerModule,
     BatteryPowerLimitCheckModule |-> BatteryPowerLimitCheckModule,
     HVBusPowerBalanceModule |-> HVBusPowerBalanceModule, ChargerSimpleModule |-> ChargerSimpleModule,
     GearboxSimpleModule |-> GearboxSimpleModule, WheelTorqueForceModule |-> WheelTorqueForceModule,
     VehicleRoadLoadModule |-> VehicleRoadLoadModule,
     VehicleLongitudinalDynamicsStepModule |-> VehicleLongitudinalDynamicsStepModule,
     BrakeSimpleModule |-> BrakeSimpleModule, RegenerativeBrakeSplitModule |-> RegenerativeBrakeSplitModule,
     ElectricMotorSimpleModule |-> ElectricMotorSimpleModule,
     ElectricMotorMapModule |-> ElectricMotorMapModule,
     DCDCConverterSimpleModule |-> DCDCConverterSimpleModule, InverterSimpleModule |-> InverterSimpleModule,
     FuelCellCathodeAirSupplyModule |-> FuelCellCathodeAirSupplyModule,
     FuelCellAnodeHydrogenSupplyModule |-> FuelCellAnodeHydrogenSupplyModule,
     FuelCellAnodeRecirculationModule |-> FuelCellAnodeRecirculationModule,
     FuelCellCoolantInterfaceModule |-> FuelCellCoolantInterfaceModule,
     FuelCellSystemEfficiencyModule |-> FuelCellSystemEfficiencyModule,
     ElectrolyzerWaterFeedModule |-> ElectrolyzerWaterFeedModule,
     ElectrolyzerGasProductionModule |-> ElectrolyzerGasProductionModule,
     ElectrolyzerCoolingInterfaceModule |-> ElectrolyzerCoolingInterfaceModule,
     GasSeparatorSimpleModule |-> GasSeparatorSimpleModule,
     FuelCellStackBalanceModule |-> FuelCellStackBalanceModule,
     ElectrolyzerStackBalanceModule |-> ElectrolyzerStackBalanceModule,
     FuelCellPolarizationMapModule |-> FuelCellPolarizationMapModule,
     ElectrolyzerPolarizationMapModule |-> ElectrolyzerPolarizationMapModule]
=============================================================================
