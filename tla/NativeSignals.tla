---------------------------- MODULE NativeSignals ----------------------------
(***************************************************************************)
(* The signal, generic and aggregate modules: modules/signal.py,           *)
(* modules/generic.py and modules/aggregate.py.  A list of variables named *)
(* by a parameter stands with two of its variables.                        *)
(***************************************************************************)
EXTENDS Formulas

GainBiasModule == Native(
    Scaled([gain |-> Default("finite", 1), bias |-> Default("finite", 0)]), <<>>, {"x", "y"}, <<
    Read(<<"x", "y">>),
    Yield(<<Equation(Loc("y") \ominus ((Par("gain") \otimes Loc("x")) \oplus Par("bias")))>>)>>)

SumModule == Native(
    Scaled([input_variables |-> Given("names", 0), weights |-> Unclaimed(Default("finite", 1)),
            output_variable |-> Given("names", 0), bias |-> Default("finite", 0)]), <<>>,
    {"in_1", "in_2", "output_variable"}, <<
    Let("weighted_sum", Par("weights") \otimes Total("input_variables", <<"in_1", "in_2">>)),
    Let("output", Ref("output_variable")),
    Yield(<<Equation(Loc("output") \ominus Loc("weighted_sum") \ominus Par("bias"))>>)>>)

ProductModule == Native(
    Scaled([x1_variable |-> Given("names", 0), x2_variable |-> Given("names", 0),
            output_variable |-> Given("names", 0)]), <<>>,
    {"x1_variable", "x2_variable", "output_variable"}, <<
    Let("x1", Ref("x1_variable")), Let("x2", Ref("x2_variable")), Let("output", Ref("output_variable")),
    Yield(<<Equation(Loc("output") \ominus (Loc("x1") \otimes Loc("x2")))>>)>>)

RatioModule == Native(
    Scaled([numerator_variable |-> Given("names", 0), denominator_variable |-> Given("names", 0),
            output_variable |-> Given("names", 0), denominator_min_abs |-> Default("positive", 1)]), <<>>,
    {"numerator_variable", "denominator_variable", "output_variable"}, <<
    Let("numerator", Ref("numerator_variable")), Let("denominator", Ref("denominator_variable")),
    Let("output", Ref("output_variable")),
    When(Abs(Loc("denominator")) \prec Par("denominator_min_abs"), <<Stop>>, <<>>),
    Yield(<<Equation(Loc("output") \ominus (Loc("numerator") \oslash Loc("denominator")))>>)>>)

UnitScaleModule == Native(
    Scaled([factor |-> Given("finite", 2), offset |-> Default("finite", 0)]), <<>>, {"x", "y"}, <<
    Read(<<"x", "y">>),
    Yield(<<Equation(Loc("y") \ominus ((Par("factor") \otimes Loc("x")) \oplus Par("offset")))>>)>>)

SensorScaleOffsetModule == Native(
    Scaled([scale_factor |-> Default("finite", 2), offset |-> Default("finite", 0)]), <<>>,
    {"true_value", "measured_value"}, <<
    Read(<<"true_value", "measured_value">>),
    Yield(<<Equation(Loc("measured_value") \ominus
              ((Par("scale_factor") \otimes Loc("true_value")) \oplus Par("offset")))>>)>>)

LinearRelationModule == Native(
    Scaled([a |-> Default("finite", 2), b |-> Default("finite", 0)]), <<>>, {"x", "y"}, <<
    Read(<<"x", "y">>),
    Yield(<<Equation(Loc("y") \ominus ((Par("a") \otimes Loc("x")) \oplus Par("b")))>>)>>)

ConservationSumModule == Native(
    Scaled([input_variables |-> Given("names", 0), output_variables |-> Given("names", 0),
            target |-> Default("finite", 0)]), <<>>, {"in_1", "in_2", "out_1", "out_2"}, <<
    Let("input_sum", Total("input_variables", <<"in_1", "in_2">>)),
    Let("output_sum", Total("output_variables", <<"out_1", "out_2">>)),
    Yield(<<Equation(Loc("input_sum") \ominus Loc("output_sum") \ominus Par("target"))>>)>>)

(* An absent bound is 0, one present is its value; the role is soft_check   *)
(* or post_check by a parameter.                                           *)
RangeCheckModule == Native(
    Scaled([variable |-> Unclaimed(Given("names", 0)), lower_bound |-> Default("option", 1),
            upper_bound |-> Default("option", 0)]),
    <<Either(Par("lower_bound"), Par("upper_bound"))>>, {"variable"}, <<
    Let("value", Ref("variable")),
    Let("residual", Num(0)),
    When(Both(Par("lower_bound"), Loc("value") \prec Par("lower_bound")),
      <<Let("residual", Loc("value") \ominus Par("lower_bound"))>>, <<
      When(Both(Par("upper_bound"), Loc("value") \succ Par("upper_bound")),
        <<Let("residual", Loc("value") \ominus Par("upper_bound"))>>, <<>>)>>),
    Yield(<<PostCheck(Loc("residual"))>>)>>)

-----------------------------------------------------------------------------
(***************************************************************************)
(* Aggregates: balances of sums of named variables.  Each list parameter   *)
(* is optional; an empty list adds nothing.                                *)
(***************************************************************************)
Listed(names) == [p \in names |-> Default("names", 0)]
Balance(record, scale) == Rec("equation", record, Par(scale))
With(a, b) == [p \in DOMAIN a \union DOMAIN b |-> IF p \in DOMAIN a THEN a[p] ELSE b[p]]

AggregatePowerBalanceModule == Native(
    With(Listed({"source_power_variables", "load_power_variables", "loss_power_variables",
                 "storage_power_variables"}), [residual_scale_W |-> Default("positive", 1)]), <<>>,
    {"source", "load", "loss", "storage"}, <<
    Let("residual", Total("source_power_variables", <<"source">>)
        \ominus Total("load_power_variables", <<"load">>) \ominus Total("loss_power_variables", <<"loss">>)
        \ominus Total("storage_power_variables", <<"storage">>)),
    Yield(<<Balance(Loc("residual"), "residual_scale_W")>>)>>)

(* The stored rate is a variable where one is named, a parameter otherwise. *)
Storage(variable, target) ==
    Let("storage", Pick(Par(variable), Ref(variable), Par(target)))

AggregateThermalBalanceModule == Native(
    With(Listed({"heat_in_variables", "heat_out_variables"}),
         [heat_storage_rate_variable |-> Default("option", 0), target_storage_rate_W |-> Default("finite", 0),
          residual_scale_W |-> Default("positive", 1)]), <<>>,
    {"in", "out", "heat_storage_rate_variable"}, <<
    Storage("heat_storage_rate_variable", "target_storage_rate_W"),
    Let("residual", Total("heat_in_variables", <<"in">>) \ominus Total("heat_out_variables", <<"out">>)
                    \ominus Loc("storage")),
    Yield(<<Balance(Loc("residual"), "residual_scale_W")>>)>>)

AggregateMassBalanceModule == Native(
    With(Listed({"mass_in_variables", "mass_out_variables"}),
         [mass_storage_rate_variable |-> Default("option", 0), target_storage_rate_kg_s |-> Default("finite", 0),
          residual_scale_kg_s |-> Default("positive", 1)]), <<>>,
    {"in", "out", "mass_storage_rate_variable"}, <<
    Storage("mass_storage_rate_variable", "target_storage_rate_kg_s"),
    Let("residual", Total("mass_in_variables", <<"in">>) \ominus Total("mass_out_variables", <<"out">>)
                    \ominus Loc("storage")),
    Yield(<<Balance(Loc("residual"), "residual_scale_kg_s")>>)>>)

AggregateSpeciesBalanceModule == Native(
    With(Listed({"species_in_variables", "species_out_variables", "species_consumption_variables",
                 "species_production_variables"}),
         [storage_rate_variable |-> Default("option", 0), target_storage_rate_mol_s |-> Default("finite", 0),
          residual_scale_mol_s |-> Default("positive", 1)]), <<>>,
    {"in", "out", "consumed", "produced", "storage_rate_variable"}, <<
    Storage("storage_rate_variable", "target_storage_rate_mol_s"),
    Let("residual", Total("species_in_variables", <<"in">>)
        \oplus Total("species_production_variables", <<"produced">>)
        \ominus Total("species_out_variables", <<"out">>)
        \ominus Total("species_consumption_variables", <<"consumed">>) \ominus Loc("storage")),
    Yield(<<Balance(Loc("residual"), "residual_scale_mol_s")>>)>>)

AggregateElectricalBusBalanceModule == Native(
    With(Listed({"generation_power_variables", "consumption_power_variables",
                 "storage_power_variables", "loss_power_variables"}),
         [residual_scale_W |-> Default("positive", 1)]), <<>>,
    {"generated", "consumed", "storage", "loss"}, <<
    Let("residual", Total("generation_power_variables", <<"generated">>)
        \ominus Total("consumption_power_variables", <<"consumed">>)
        \ominus Total("storage_power_variables", <<"storage">>) \ominus Total("loss_power_variables", <<"loss">>)),
    Yield(<<Balance(Loc("residual"), "residual_scale_W")>>)>>)

AggregateEfficiencyModule == Native(
    Scaled([useful_output_power_variable |-> Given("names", 0), input_power_variable |-> Given("names", 0),
            efficiency_variable |-> Given("names", 0), denominator_min_abs |-> Default("positive", 1)]), <<>>,
    {"useful_output_power_variable", "input_power_variable", "efficiency_variable"}, <<
    Let("useful", Ref("useful_output_power_variable")), Let("input_power", Ref("input_power_variable")),
    When(Abs(Loc("input_power")) \prec Par("denominator_min_abs"), <<Stop>>, <<>>),
    Let("efficiency", Ref("efficiency_variable")),
    Let("residual", Loc("efficiency") \ominus (Loc("useful") \oslash Loc("input_power"))),
    Yield(<<Balance(Loc("residual"), "residual_scale")>>)>>)

(* The modules of these files, as default_module_registry registers them. *)
SignalModules ==
    [GainBiasModule |-> GainBiasModule, SumModule |-> SumModule, ProductModule |-> ProductModule,
     RatioModule |-> RatioModule, UnitScaleModule |-> UnitScaleModule,
     SensorScaleOffsetModule |-> SensorScaleOffsetModule, LinearRelationModule |-> LinearRelationModule,
     ConservationSumModule |-> ConservationSumModule, RangeCheckModule |-> RangeCheckModule,
     AggregatePowerBalanceModule |-> AggregatePowerBalanceModule,
     AggregateThermalBalanceModule |-> AggregateThermalBalanceModule,
     AggregateMassBalanceModule |-> AggregateMassBalanceModule,
     AggregateSpeciesBalanceModule |-> AggregateSpeciesBalanceModule,
     AggregateElectricalBusBalanceModule |-> AggregateElectricalBusBalanceModule,
     AggregateEfficiencyModule |-> AggregateEfficiencyModule]
=============================================================================
