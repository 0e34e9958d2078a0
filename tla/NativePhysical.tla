--------------------------- MODULE NativePhysical ---------------------------
(***************************************************************************)
(* The physical relations: modules/physical/.  Physical constants and      *)
(* numeric factors are 1, and a power is Fn.                               *)
(***************************************************************************)
EXTENDS Formulas

TooSmall(n) == Abs(Loc(n)) \prec Par("denominator_min_abs")
Floor == [denominator_min_abs |-> Default("positive", 1)]
Positive(n) == [p \in {n} |-> Given("positive", 1)]
NonNegative(n) == [p \in {n} |-> Given("nonneg", 2)]

(* additional.py *)
PressureRatioModule == Checked(Floor, <<"p_in_Pa">>, TooSmall("p_in_Pa"), <<"p_out_Pa", "pressure_ratio">>,
    Loc("pressure_ratio") \ominus (Loc("p_out_Pa") \oslash Loc("p_in_Pa")), "residual_scale")
EfficiencyModule == Checked(Floor, <<"input_power_W">>, TooSmall("input_power_W"),
    <<"useful_output_power_W", "efficiency">>,
    Loc("efficiency") \ominus (Loc("useful_output_power_W") \oslash Loc("input_power_W")), "residual_scale")
TorqueSpeedPowerModule == Formula(NoParams, <<"torque_Nm", "omega_rad_s", "P_W">>,
    Loc("P_W") \ominus (Loc("torque_Nm") \otimes Loc("omega_rad_s")), "residual_scale_W")
CellVoltageStackVoltageModule == Formula(Positive("n_cells"), <<"V_cell_V", "V_stack_V">>,
    Loc("V_stack_V") \ominus (Par("n_cells") \otimes Loc("V_cell_V")), "residual_scale_V")
CurrentDensityModule == Formula(Positive("active_area_m2"), <<"current_A", "current_density_A_m2">>,
    Loc("current_density_A_m2") \ominus (Loc("current_A") \oslash Par("active_area_m2")), "residual_scale_A_m2")

(* electrical.py *)
OhmicRelationModule == Formula(NonNegative("resistance_ohm"), <<"current_A", "V_drop_V">>,
    Loc("V_drop_V") \ominus (Loc("current_A") \otimes Par("resistance_ohm")), "residual_scale_V")
ElectricalPowerModule == Formula(NoParams, <<"V_V", "current_A", "P_W">>,
    Loc("P_W") \ominus (Loc("V_V") \otimes Loc("current_A")), "residual_scale_W")

(* mechanical.py: force or torque proportional to a motion. *)
Proportional(params, factor, cause, effect, scale) == Formula(params, <<cause, effect>>,
    Loc(effect) \ominus (Par(factor) \otimes Loc(cause)), scale)
ForceVelocityPowerModule == Formula(NoParams, <<"force_N", "velocity_m_s", "P_W">>,
    Loc("P_W") \ominus (Loc("force_N") \otimes Loc("velocity_m_s")), "residual_scale_W")
LinearSpringForceModule ==
    Proportional(NonNegative("stiffness_N_m"), "stiffness_N_m", "displacement_m", "force_N", "residual_scale_N")
ViscousDamperForceModule ==
    Proportional(NonNegative("damping_N_s_m"), "damping_N_s_m", "velocity_m_s", "force_N", "residual_scale_N")
TranslationalInertiaForceModule ==
    Proportional(Positive("mass_kg"), "mass_kg", "acceleration_m_s2", "force_N", "residual_scale_N")
RotationalInertiaTorqueModule ==
    Proportional(Positive("inertia_kg_m2"), "inertia_kg_m2", "angular_acceleration_rad_s2", "torque_Nm",
                 "residual_scale_Nm")

(* thermal.py *)
CoolantHeatBalanceModule == Formula([cp_J_kgK |-> Default("positive", 2)],
    <<"m_dot_kg_s", "T_in_K", "T_out_K", "Q_dot_W">>,
    Loc("Q_dot_W") \ominus (Loc("m_dot_kg_s") \otimes Par("cp_J_kgK") \otimes (Loc("T_out_K") \ominus Loc("T_in_K"))),
    "residual_scale_W")
ThermalConductorModule == Formula(Positive("G_W_K"), <<"T_a_K", "T_b_K", "Q_dot_W">>,
    Loc("Q_dot_W") \ominus (Par("G_W_K") \otimes (Loc("T_a_K") \ominus Loc("T_b_K"))), "residual_scale_W")
ConvectiveHeatTransferModule ==
    Formula([h_W_m2K |-> Given("positive", 1), area_m2 |-> Given("positive", 1)],
    <<"T_surface_K", "T_fluid_K", "Q_dot_W">>,
    Loc("Q_dot_W") \ominus (Par("h_W_m2K") \otimes Par("area_m2") \otimes (Loc("T_surface_K") \ominus Loc("T_fluid_K"))),
    "residual_scale_W")
ThermalCapacitanceRateModule == Formula(Positive("C_J_K"), <<"Q_net_W", "dT_dt_K_s">>,
    Loc("Q_net_W") \ominus (Par("C_J_K") \otimes Loc("dT_dt_K_s")), "residual_scale_W")

(* fluid.py *)
IncompressiblePressureDropModule == Native(
    And([K |-> Given("nonneg", 2), rho_kg_m3 |-> Given("positive", 1), area_m2 |-> Given("positive", 1)],
        "residual_scale_Pa"), <<>>, {"p_in_Pa", "p_out_Pa", "m_dot_kg_s"}, <<
    Read(<<"p_in_Pa", "p_out_Pa", "m_dot_kg_s">>),
    Let("velocity", Loc("m_dot_kg_s") \oslash (Par("rho_kg_m3") \otimes Par("area_m2"))),
    Let("expected_dp", Par("K") \otimes Par("rho_kg_m3") \otimes Loc("velocity") \otimes Abs(Loc("velocity"))),
    Yield(<<Rec("equation", (Loc("p_in_Pa") \ominus Loc("p_out_Pa")) \ominus Loc("expected_dp"),
                Par("residual_scale_Pa"))>>)>>)
IncompressibleOrificeModule == Formula(
    [CdA_m2 |-> Given("positive", 1), rho_kg_m3 |-> Given("positive", 1)],
    <<"p_upstream_Pa", "p_downstream_Pa", "m_dot_kg_s">>,
    (Loc("m_dot_kg_s") \otimes Loc("m_dot_kg_s")) \ominus (Par("rho_kg_m3") \otimes Fn(<<Par("CdA_m2")>>)
        \otimes (Loc("p_upstream_Pa") \ominus Loc("p_downstream_Pa"))), "residual_scale_kg2_s2")
(* The kept rate comes from a local, so it has no single origin. *)
MassBalanceRateModule == Native(
    And([input_variables |-> Given("names", 0), output_variables |-> Given("names", 0),
         dm_dt_variable |-> Unclaimed(Default("option", 0)), target_dm_dt_kg_s |-> Default("finite", 0)],
        "residual_scale_kg_s"), <<>>, {"in_1", "in_2", "out_1", "dm_dt_variable"}, <<
    Let("input_sum", Total("input_variables", <<"in_1", "in_2">>)),
    Let("output_sum", Total("output_variables", <<"out_1">>)),
    Let("dm_dt", Pick(Par("dm_dt_variable"), Ref("dm_dt_variable"), Par("target_dm_dt_kg_s"))),
    Yield(<<Rec("equation", (Loc("input_sum") \ominus Loc("output_sum")) \ominus Loc("dm_dt"),
                Par("residual_scale_kg_s"))>>)>>)
PumpHydraulicPowerModule == Formula(
    [rho_kg_m3 |-> Given("positive", 1), efficiency |-> Default("efficiency", 1)],
    <<"p_out_Pa", "p_in_Pa", "m_dot_kg_s", "P_shaft_W">>,
    Loc("P_shaft_W") \ominus ((((Loc("p_out_Pa") \ominus Loc("p_in_Pa")) \otimes Loc("m_dot_kg_s"))
        \oslash Par("rho_kg_m3")) \oslash Par("efficiency")), "residual_scale_W")
(* Two inlets, each element of the two lists in a local of its own. *)
MixerEnergyBalanceModule == Native(
    And(And([inlet_m_dot_variables |-> Given("names", 0), inlet_T_variables |-> Given("names", 0)],
            "mass_residual_scale_kg_s"), "energy_residual_scale_kgK_s"), <<>>,
    {"m_1", "m_2", "T_1", "T_2", "outlet_m_dot", "outlet_temp"}, <<
    Let("m_1", Element("inlet_m_dot_variables", "m_1")), Let("m_2", Element("inlet_m_dot_variables", "m_2")),
    Let("T_1", Element("inlet_T_variables", "T_1")), Let("T_2", Element("inlet_T_variables", "T_2")),
    Read(<<"outlet_m_dot", "outlet_temp">>),
    Let("mass_sum", Loc("m_1") \oplus Loc("m_2")),
    Let("inlet_energy", (Loc("m_1") \otimes Loc("T_1")) \oplus (Loc("m_2") \otimes Loc("T_2"))),
    Yield(<<Rec("equation", Loc("outlet_m_dot") \ominus Loc("mass_sum"), Par("mass_residual_scale_kg_s")),
            Rec("equation", (Loc("outlet_m_dot") \otimes Loc("outlet_temp")) \ominus Loc("inlet_energy"),
                Par("energy_residual_scale_kgK_s"))>>)>>)

(* gas.py, humidity.py, tank.py *)
IdealGasStateModule == Formula(Positive("volume_m3"), <<"p_Pa", "T_K", "n_mol">>,
    (Loc("p_Pa") \otimes Par("volume_m3")) \ominus (Loc("n_mol") \otimes Loc("T_K")), "residual_scale_J")
RelativeHumidityFromPartialPressureModule == Checked(Floor, <<"p_vapor_Pa", "p_saturation_Pa">>,
    TooSmall("p_saturation_Pa"), <<"relative_humidity">>,
    Loc("relative_humidity") \ominus (Loc("p_vapor_Pa") \oslash Loc("p_saturation_Pa")), "residual_scale")
HumidityRatioFromPartialPressureModule == Native(Scaled(Floor), <<>>,
    {"p_total_Pa", "p_vapor_Pa", "humidity_ratio_kg_kg"}, <<
    Read(<<"p_total_Pa", "p_vapor_Pa">>),
    Let("denominator", Loc("p_total_Pa") \ominus Loc("p_vapor_Pa")),
    When(Loc("denominator") \preceq Par("denominator_min_abs"), <<Stop>>, <<>>),
    Read(<<"humidity_ratio_kg_kg">>),
    Yield(<<Equation(Loc("humidity_ratio_kg_kg") \ominus (Loc("p_vapor_Pa") \oslash Loc("denominator")))>>)>>)
WaterVaporMoleFractionModule == Checked(Floor, <<"p_total_Pa">>, TooSmall("p_total_Pa"),
    <<"p_vapor_Pa", "x_vapor">>,
    Loc("x_vapor") \ominus (Loc("p_vapor_Pa") \oslash Loc("p_total_Pa")), "residual_scale")
TankLevelVolumeModule ==
    Proportional(Positive("area_m2"), "area_m2", "level_m", "volume_m3", "residual_scale_m3")
TankVolumeRateModule == Formula(Positive("dt_s"),
    <<"volume_previous_m3", "V_dot_in_m3_s", "V_dot_out_m3_s", "volume_current_m3">>,
    Loc("volume_current_m3") \ominus (Loc("volume_previous_m3") \oplus
        ((Loc("V_dot_in_m3_s") \ominus Loc("V_dot_out_m3_s")) \otimes Par("dt_s"))), "residual_scale_m3")

(* thermodynamics.py *)
MassMolarFlowConversionModule == Proportional(Positive("molar_mass_kg_mol"), "molar_mass_kg_mol",
    "n_dot_mol_s", "m_dot_kg_s", "residual_scale_kg_s")
MoleFractionFlowModule == Formula(NoParams, <<"total_n_dot_mol_s", "species_n_dot_mol_s", "mole_fraction">>,
    Loc("species_n_dot_mol_s") \ominus (Loc("mole_fraction") \otimes Loc("total_n_dot_mol_s")), "residual_scale_mol_s")
VolumetricMassFlowConversionModule == Proportional(Positive("rho_kg_m3"), "rho_kg_m3",
    "V_dot_m3_s", "m_dot_kg_s", "residual_scale_kg_s")
DensityMassVolumeModule == Formula(NoParams, <<"mass_kg", "rho_kg_m3", "volume_m3">>,
    Loc("mass_kg") \ominus (Loc("rho_kg_m3") \otimes Loc("volume_m3")), "residual_scale_kg")
IdealGasDensityModule == Checked(
    [molar_mass_kg_mol |-> Given("positive", 1), temperature_min_abs |-> Default("positive", 1)],
    <<"p_Pa", "T_K">>, Abs(Loc("T_K")) \prec Par("temperature_min_abs"), <<"rho_kg_m3">>,
    Loc("rho_kg_m3") \ominus ((Loc("p_Pa") \otimes Par("molar_mass_kg_mol")) \oslash Loc("T_K")),
    "residual_scale_kg_m3")
SpecificEnthalpyFlowModule == Formula(
    [cp_J_kgK |-> Given("positive", 1), T_ref_K |-> Default("finite", 0)], <<"m_dot_kg_s", "T_K", "H_dot_W">>,
    Loc("H_dot_W") \ominus (Loc("m_dot_kg_s") \otimes Par("cp_J_kgK") \otimes (Loc("T_K") \ominus Par("T_ref_K"))),
    "residual_scale_W")
HeatExchangerEffectivenessModule == Native(
    And([cp_hot_J_kgK |-> Default("positive", 2), cp_cold_J_kgK |-> Default("positive", 1),
         effectiveness |-> Given("fraction", 1)], "residual_scale_W"), <<>>,
    {"m_dot_hot_kg_s", "T_hot_in_K", "T_hot_out_K", "m_dot_cold_kg_s", "T_cold_in_K", "T_cold_out_K", "Q_dot_W"}, <<
    Read(<<"m_dot_hot_kg_s", "T_hot_in_K", "T_hot_out_K", "m_dot_cold_kg_s", "T_cold_in_K", "T_cold_out_K", "Q_dot_W">>),
    Let("c_hot", Loc("m_dot_hot_kg_s") \otimes Par("cp_hot_J_kgK")),
    Let("c_cold", Loc("m_dot_cold_kg_s") \otimes Par("cp_cold_J_kgK")),
    Let("c_min", Low(Loc("c_hot"), Loc("c_cold"))),
    Yield(<<
      Rec("equation", Loc("Q_dot_W") \ominus (Par("effectiveness") \otimes Loc("c_min")
          \otimes (Loc("T_hot_in_K") \ominus Loc("T_cold_in_K"))), Par("residual_scale_W")),
      Rec("equation", Loc("Q_dot_W") \ominus (Loc("m_dot_hot_kg_s") \otimes Par("cp_hot_J_kgK")
          \otimes (Loc("T_hot_in_K") \ominus Loc("T_hot_out_K"))), Par("residual_scale_W")),
      Rec("equation", Loc("Q_dot_W") \ominus (Loc("m_dot_cold_kg_s") \otimes Par("cp_cold_J_kgK")
          \otimes (Loc("T_cold_out_K") \ominus Loc("T_cold_in_K"))), Par("residual_scale_W"))>>)>>)
RadiativeHeatTransferModule == Formula(
    [emissivity |-> Given("fraction", 1), area_m2 |-> Given("positive", 1)], <<"T_hot_K", "T_cold_K", "Q_dot_W">>,
    Loc("Q_dot_W") \ominus (Par("emissivity") \otimes Par("area_m2")
        \otimes (Fn(<<Loc("T_hot_K")>>) \ominus Fn(<<Loc("T_cold_K")>>))), "residual_scale_W")
AmbientHeatLossModule == Formula(NonNegative("UA_W_K"), <<"T_body_K", "T_ambient_K", "Q_loss_W">>,
    Loc("Q_loss_W") \ominus (Par("UA_W_K") \otimes (Loc("T_body_K") \ominus Loc("T_ambient_K"))), "residual_scale_W")

(***************************************************************************)
(* rotating.py: a ratio of pressures that must be positive, raised to an   *)
(* exponent of gamma.                                                      *)
(***************************************************************************)
Machine == [gamma |-> Default("positive", 2), efficiency |-> Default("efficiency", 1),
            denominator_min_abs |-> Default("positive", 1)]
Isentropic(params, after, calculated, effect, scale) == Native(And(params, scale), <<Par("gamma") \succ Num(1)>>,
    {"p_in_Pa", "p_out_Pa"} \union Named(after), <<
    Read(<<"p_in_Pa">>), When(TooSmall("p_in_Pa"), <<Stop>>, <<>>),
    Read(<<"p_out_Pa">>), Let("pressure_ratio", Loc("p_out_Pa") \oslash Loc("p_in_Pa")),
    When(Loc("pressure_ratio") \preceq Num(0), <<Stop>>, <<>>),
    Read(after),
    Let("exponent", (Par("gamma") \ominus Num(1)) \oslash Par("gamma")),
    Let("rise", (Fn(<<Loc("pressure_ratio"), Loc("exponent")>>) \ominus Num(1)) \oslash Par("efficiency")),
    Yield(<<Rec("equation", Loc(effect) \ominus calculated, Par(scale))>>)>>)
CompressibleIsentropicCompressorPowerModule ==
    Isentropic([p \in DOMAIN Machine \union {"cp_J_kgK"} |->
                   IF p = "cp_J_kgK" THEN Default("positive", 1) ELSE Machine[p]],
               <<"T_in_K", "m_dot_kg_s", "P_shaft_W">>,
               Loc("m_dot_kg_s") \otimes Par("cp_J_kgK") \otimes Loc("T_in_K") \otimes Loc("rise"),
               "P_shaft_W", "residual_scale_W")
IsentropicGasTemperatureRiseModule ==
    Isentropic(Machine, <<"T_in_K", "T_out_K">>, Loc("T_in_K") \otimes (Num(1) \oplus Loc("rise")),
               "T_out_K", "residual_scale_K")
RotatingMachineAffinityModule == Native(
    And(And(And([nominal_speed_rad_s |-> Given("positive", 1), nominal_m_dot_kg_s |-> Given("finite", 2),
                 nominal_delta_p_Pa |-> Given("finite", 2), nominal_P_shaft_W |-> Given("finite", 2)],
                "flow_residual_scale_kg_s"), "pressure_residual_scale_Pa"), "power_residual_scale_W"), <<>>,
    {"speed_rad_s", "m_dot_kg_s", "delta_p_Pa", "P_shaft_W"}, <<
    Read(<<"speed_rad_s">>), Let("speed_ratio", Loc("speed_rad_s") \oslash Par("nominal_speed_rad_s")),
    Read(<<"m_dot_kg_s", "delta_p_Pa", "P_shaft_W">>),
    Yield(<<
      Rec("equation", Loc("m_dot_kg_s") \ominus (Par("nominal_m_dot_kg_s") \otimes Loc("speed_ratio")),
          Par("flow_residual_scale_kg_s")),
      Rec("equation", Loc("delta_p_Pa") \ominus (Par("nominal_delta_p_Pa") \otimes Fn(<<Loc("speed_ratio")>>)),
          Par("pressure_residual_scale_Pa")),
      Rec("equation", Loc("P_shaft_W") \ominus (Par("nominal_P_shaft_W") \otimes Fn(<<Loc("speed_ratio"), Num(3)>>)),
          Par("power_residual_scale_W"))>>)>>)

(* electrochemical.py, electrochemical_extra.py *)
ElectrochemicalFaradayRateModule == Formula(
    [n_cells |-> Given("positive", 1), electrons_per_mole |-> Given("positive", 1),
     faradaic_efficiency |-> Default("efficiency", 1)], <<"current_A", "n_dot_mol_s">>,
    Loc("n_dot_mol_s") \ominus ((Par("faradaic_efficiency") \otimes Par("n_cells") \otimes Loc("current_A"))
        \oslash Par("electrons_per_mole")), "residual_scale_mol_s")
StoichiometryModule == Proportional(Positive("stoichiometry"), "stoichiometry",
    "n_dot_consumed_mol_s", "n_dot_feed_mol_s", "residual_scale_mol_s")
ElectrochemicalStackPowerModule == Formula(Positive("n_cells"), <<"V_cell_V", "current_A", "P_stack_W">>,
    Loc("P_stack_W") \ominus (Par("n_cells") \otimes Loc("V_cell_V") \otimes Loc("current_A")), "residual_scale_W")
ChemicalPowerLHVModule == Proportional(Positive("LHV_J_kg"), "LHV_J_kg",
    "m_dot_fuel_kg_s", "P_chemical_W", "residual_scale_W")
StackChemicalEfficiencyModule == Checked(Floor, <<"P_stack_W", "P_chemical_W">>, TooSmall("P_chemical_W"),
    <<"efficiency">>, Loc("efficiency") \ominus (Loc("P_stack_W") \oslash Loc("P_chemical_W")), "residual_scale")
AirOxygenMolarFlowModule == Native(
    And(And([oxygen_mole_fraction |-> Default("efficiency", 1), molar_mass_air_kg_mol |-> Default("positive", 1)],
            "molar_residual_scale_mol_s"), "mass_residual_scale_kg_s"), <<>>,
    {"n_dot_O2_mol_s", "n_dot_air_mol_s", "m_dot_air_kg_s"}, <<
    Read(<<"n_dot_O2_mol_s", "n_dot_air_mol_s", "m_dot_air_kg_s">>),
    Yield(<<
      Rec("equation", Loc("n_dot_air_mol_s") \ominus (Loc("n_dot_O2_mol_s") \oslash Par("oxygen_mole_fraction")),
          Par("molar_residual_scale_mol_s")),
      Rec("equation", Loc("m_dot_air_kg_s") \ominus (Loc("n_dot_air_mol_s") \otimes Par("molar_mass_air_kg_mol")),
          Par("mass_residual_scale_kg_s"))>>)>>)
WaterProductionFaradayModule == Formula(
    [n_cells |-> Given("positive", 1), faradaic_efficiency |-> Default("efficiency", 1)],
    <<"current_A", "n_dot_H2O_mol_s">>,
    Loc("n_dot_H2O_mol_s") \ominus (Par("faradaic_efficiency") \otimes Par("n_cells") \otimes Loc("current_A")),
    "residual_scale_mol_s")

(* The modules of these files, as default_module_registry registers them. *)
PhysicalModules ==
    [PressureRatioModule |-> PressureRatioModule, EfficiencyModule |-> EfficiencyModule,
     TorqueSpeedPowerModule |-> TorqueSpeedPowerModule,
     CellVoltageStackVoltageModule |-> CellVoltageStackVoltageModule,
     CurrentDensityModule |-> CurrentDensityModule, OhmicRelationModule |-> OhmicRelationModule,
     ElectricalPowerModule |-> ElectricalPowerModule, ForceVelocityPowerModule |-> ForceVelocityPowerModule,
     LinearSpringForceModule |-> LinearSpringForceModule,
     ViscousDamperForceModule |-> ViscousDamperForceModule,
     TranslationalInertiaForceModule |-> TranslationalInertiaForceModule,
     RotationalInertiaTorqueModule |-> RotationalInertiaTorqueModule,
     CoolantHeatBalanceModule |-> CoolantHeatBalanceModule,
     ThermalConductorModule |-> ThermalConductorModule,
     ConvectiveHeatTransferModule |-> ConvectiveHeatTransferModule,
     ThermalCapacitanceRateModule |-> ThermalCapacitanceRateModule,
     IncompressiblePressureDropModule |-> IncompressiblePressureDropModule,
     IncompressibleOrificeModule |-> IncompressibleOrificeModule,
     MassBalanceRateModule |-> MassBalanceRateModule, MixerEnergyBalanceModule |-> MixerEnergyBalanceModule,
     PumpHydraulicPowerModule |-> PumpHydraulicPowerModule,
     IdealGasStateModule |-> IdealGasStateModule,
     RelativeHumidityFromPartialPressureModule |-> RelativeHumidityFromPartialPressureModule,
     HumidityRatioFromPartialPressureModule |-> HumidityRatioFromPartialPressureModule,
     WaterVaporMoleFractionModule |-> WaterVaporMoleFractionModule,
     TankLevelVolumeModule |-> TankLevelVolumeModule, TankVolumeRateModule |-> TankVolumeRateModule,
     MassMolarFlowConversionModule |-> MassMolarFlowConversionModule,
     MoleFractionFlowModule |-> MoleFractionFlowModule,
     VolumetricMassFlowConversionModule |-> VolumetricMassFlowConversionModule,
     DensityMassVolumeModule |-> DensityMassVolumeModule, IdealGasDensityModule |-> IdealGasDensityModule,
     SpecificEnthalpyFlowModule |-> SpecificEnthalpyFlowModule,
     HeatExchangerEffectivenessModule |-> HeatExchangerEffectivenessModule,
     RadiativeHeatTransferModule |-> RadiativeHeatTransferModule,
     AmbientHeatLossModule |-> AmbientHeatLossModule,
     CompressibleIsentropicCompressorPowerModule |-> CompressibleIsentropicCompressorPowerModule,
     IsentropicGasTemperatureRiseModule |-> IsentropicGasTemperatureRiseModule,
     RotatingMachineAffinityModule |-> RotatingMachineAffinityModule,
     ElectrochemicalFaradayRateModule |-> ElectrochemicalFaradayRateModule,
     StoichiometryModule |-> StoichiometryModule,
     ElectrochemicalStackPowerModule |-> ElectrochemicalStackPowerModule,
     ChemicalPowerLHVModule |-> ChemicalPowerLHVModule,
     StackChemicalEfficiencyModule |-> StackChemicalEfficiencyModule,
     AirOxygenMolarFlowModule |-> AirOxygenMolarFlowModule,
     WaterProductionFaradayModule |-> WaterProductionFaradayModule]
=============================================================================
