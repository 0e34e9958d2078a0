---------------------------- MODULE NativeControl ----------------------------
(***************************************************************************)
(* The control modules: modules/control.py, modules/components/control.py  *)
(* and modules/components/control_sensor_actuator.py.  A definition is the *)
(* class of its name: constructor parameters and refusals, the variables   *)
(* it reads, and its residuals method.                                     *)
(***************************************************************************)
EXTENDS Formulas

ControlErrorModule == Native(Scaled(<<>>), <<>>, {"setpoint", "measurement", "error"}, <<
    Read(<<"setpoint", "measurement", "error">>),
    Yield(<<Equation(Loc("error") \ominus (Loc("setpoint") \ominus Loc("measurement")))>>)>>)

PIDAlgebraicModule == Native(
    Scaled([Kp |-> Default("finite", 0), Ki |-> Default("finite", 0),
            Kd |-> Default("finite", 0), bias |-> Default("finite", 0)]), <<>>,
    {"error", "integral_error", "derivative_error", "output"}, <<
    Read(<<"error", "integral_error", "derivative_error", "output">>),
    Let("expected", (Par("Kp") \otimes Loc("error")) \oplus (Par("Ki") \otimes Loc("integral_error"))
                    \oplus (Par("Kd") \otimes Loc("derivative_error")) \oplus Par("bias")),
    Yield(<<Equation(Loc("output") \ominus Loc("expected"))>>)>>)

DiscreteIntegratorModule == Native(
    Scaled([dt_s |-> Given("positive", 1), gain |-> Default("finite", 1)]), <<>>,
    {"state_previous", "input", "state_current"}, <<
    Read(<<"state_previous", "input", "state_current">>),
    Let("expected", Loc("state_previous") \oplus (Par("gain") \otimes Loc("input") \otimes Par("dt_s"))),
    Yield(<<Equation(Loc("state_current") \ominus Loc("expected"))>>)>>)

HysteresisStateCheckModule == Native(
    Scaled([low_threshold |-> Given("finite", 0), high_threshold |-> Given("finite", 2),
            state_on_value |-> Default("finite", 1), state_off_value |-> Default("finite", 0),
            state_tolerance |-> Default("positive", 1)]),
    <<Par("low_threshold") \prec Par("high_threshold")>>, {"input", "state"}, <<
    Read(<<"input", "state">>),
    Let("on_distance", Abs(Loc("state") \ominus Par("state_on_value"))),
    Let("off_distance", Abs(Loc("state") \ominus Par("state_off_value"))),
    Let("residual", Num(0)),
    When(Both(Loc("on_distance") \preceq Par("state_tolerance"), Loc("input") \prec Par("low_threshold")),
      <<Let("residual", Par("low_threshold") \ominus Loc("input"))>>, <<
      When(Both(Loc("off_distance") \preceq Par("state_tolerance"), Loc("input") \succ Par("high_threshold")),
        <<Let("residual", Loc("input") \ominus Par("high_threshold"))>>, <<
        When(Low(Loc("on_distance"), Loc("off_distance")) \succ Par("state_tolerance"),
          <<Let("residual", Low(Loc("on_distance"), Loc("off_distance")))>>, <<>>)>>)>>),
    Yield(<<PostCheck(Loc("residual"))>>)>>)

BooleanSwitchModule == Native(Scaled(<<>>), <<>>,
    {"condition", "true_value", "false_value", "output"}, <<
    Read(<<"condition", "true_value", "false_value", "output">>),
    Let("expected", (Loc("condition") \otimes Loc("true_value"))
                    \oplus ((Num(1) \ominus Loc("condition")) \otimes Loc("false_value"))),
    Yield(<<Equation(Loc("output") \ominus Loc("expected"))>>)>>)

ThresholdStateCheckModule == Native(
    Scaled([threshold |-> Given("finite", 0), on_value |-> Default("finite", 1),
            off_value |-> Default("finite", 0), state_tolerance |-> Default("positive", 1)]), <<>>,
    {"input", "state"}, <<
    Read(<<"input", "state">>),
    Let("expected", Pick(Loc("input") \succeq Par("threshold"), Par("on_value"), Par("off_value"))),
    Let("mismatch", Loc("state") \ominus Loc("expected")),
    Let("excess", High(Abs(Loc("mismatch")) \ominus Par("state_tolerance"), Num(0))),
    Let("signed_excess", Pick(Loc("excess") \doteq Num(0), Num(0),
                              Loc("excess") \otimes Pick(Loc("mismatch") \succ Num(0), Num(1), Num(-1)))),
    Yield(<<Rec("post_check", Loc("signed_excess"), Par("state_tolerance") \otimes Par("residual_scale"))>>)>>)

SaturationModule == Native(
    Scaled([lower |-> Given("finite", 0), upper |-> Given("finite", 2)]),
    <<Par("lower") \prec Par("upper")>>, {"u", "y"}, <<
    Read(<<"u", "y">>),
    Let("saturated", Low(High(Loc("u"), Par("lower")), Par("upper"))),
    Yield(<<Equation(Loc("y") \ominus Loc("saturated"))>>)>>)

RateLimiterModule == Native(
    Scaled([dt_s |-> Given("positive", 1), rising_rate_limit |-> Given("finite", 0),
            falling_rate_limit |-> Given("finite", 0)]),
    <<Par("rising_rate_limit") \succeq Num(0), Par("falling_rate_limit") \preceq Num(0)>>,
    {"y_previous", "y_current"}, <<
    Read(<<"y_previous", "y_current">>),
    Let("rate", (Loc("y_current") \ominus Loc("y_previous")) \oslash Par("dt_s")),
    Let("residual", Num(0)),
    When(Loc("rate") \succ Par("rising_rate_limit"),
      <<Let("residual", Loc("rate") \ominus Par("rising_rate_limit"))>>, <<
      When(Loc("rate") \prec Par("falling_rate_limit"),
        <<Let("residual", Loc("rate") \ominus Par("falling_rate_limit"))>>, <<>>)>>),
    Yield(<<PostCheck(Loc("residual"))>>)>>)

FirstOrderLagModule == Native(
    Scaled([tau_s |-> Given("positive", 1), dt_s |-> Given("positive", 1)]), <<>>,
    {"u_current", "y_previous", "y_current"}, <<
    Read(<<"u_current", "y_previous", "y_current">>),
    Let("residual", ((Loc("y_current") \ominus Loc("y_previous")) \oslash Par("dt_s"))
                    \ominus ((Loc("u_current") \ominus Loc("y_current")) \oslash Par("tau_s"))),
    Yield(<<Equation(Loc("residual"))>>)>>)

LookupTable1DModule == Native(
    Scaled([x_points |-> Given("table", 0), y_points |-> Given("table", 0),
            extrapolation |-> Default("mode1d", 0)]), <<>>, {"x", "y"}, <<
    Read(<<"x", "y">>),
    Ask(<<"expected">>, "_interpolate", <<Loc("x")>>),
    Yield(<<Equation(Loc("y") \ominus Loc("expected"))>>)>>)

MapBoundsCheckModule == Native(
    Scaled([variable |-> Given("names", 0), lower |-> Given("finite", 0), upper |-> Given("finite", 2)]),
    <<Par("lower") \prec Par("upper")>>, {"variable"}, <<
    Let("value", Ref("variable")),
    Let("residual", Num(0)),
    When(Loc("value") \succ Par("upper"),
      <<Let("residual", Loc("value") \ominus Par("upper"))>>, <<
      When(Loc("value") \prec Par("lower"),
        <<Let("residual", Loc("value") \ominus Par("lower"))>>, <<>>)>>),
    Yield(<<PostCheck(Loc("residual"))>>)>>)

PIDControllerStepModule == Native(
    [Kp |-> Default("finite", 0), Ki |-> Default("finite", 0), Kd |-> Default("finite", 0),
     bias |-> Default("finite", 0), dt_s |-> Given("positive", 1),
     output_lower |-> Default("option", 0), output_upper |-> Default("option", 0),
     residual_scale_error |-> Default("positive", 1), residual_scale_integral |-> Default("positive", 1),
     residual_scale_derivative |-> Default("positive", 1), residual_scale_output |-> Default("positive", 1)],
    <<>>, {"setpoint", "measurement", "error", "error_previous", "integral_previous",
           "integral_current", "derivative_error", "output_unsaturated", "output"}, <<
    Read(<<"setpoint", "measurement", "error", "error_previous", "integral_previous",
           "integral_current", "derivative_error", "output_unsaturated", "output">>),
    Let("expected_output", (Par("Kp") \otimes Loc("error")) \oplus (Par("Ki") \otimes Loc("integral_current"))
                           \oplus (Par("Kd") \otimes Loc("derivative_error")) \oplus Par("bias")),
    Let("saturated", Loc("expected_output")),
    When(Par("output_lower"), <<Let("saturated", High(Loc("saturated"), Par("output_lower")))>>, <<>>),
    When(Par("output_upper"), <<Let("saturated", Low(Loc("saturated"), Par("output_upper")))>>, <<>>),
    Yield(<<
      Rec("equation", Loc("error") \ominus (Loc("setpoint") \ominus Loc("measurement")),
          Par("residual_scale_error")),
      Rec("equation", Loc("integral_current") \ominus
          (Loc("integral_previous") \oplus (Loc("error") \otimes Par("dt_s"))), Par("residual_scale_integral")),
      Rec("equation", Loc("derivative_error") \ominus
          ((Loc("error") \ominus Loc("error_previous")) \oslash Par("dt_s")), Par("residual_scale_derivative")),
      Rec("equation", Loc("output_unsaturated") \ominus Loc("expected_output"), Par("residual_scale_output")),
      Rec("equation", Loc("output") \ominus Loc("saturated"), Par("residual_scale_output"))>>)>>)

ActuatorFirstOrderSaturationModule == Native(
    Scaled([tau_s |-> Given("positive", 1), dt_s |-> Given("positive", 1),
            lower |-> Given("finite", 0), upper |-> Given("finite", 2)]),
    <<Par("lower") \prec Par("upper")>>, {"command", "actual_previous", "actual_current"}, <<
    Read(<<"command", "actual_previous", "actual_current">>),
    Let("target", Low(High(Loc("command"), Par("lower")), Par("upper"))),
    Let("expected", Loc("actual_previous") \oplus
        ((Par("dt_s") \oslash Par("tau_s")) \otimes (Loc("target") \ominus Loc("actual_previous")))),
    Yield(<<Equation(Loc("actual_current") \ominus Loc("expected"))>>)>>)

GainScheduledPIDModule == Native(
    [schedule_points |-> Given("table", 0), Kp_points |-> Given("table", 0),
     Ki_points |-> Given("table", 0), Kd_points |-> Given("table", 0),
     bias |-> Default("finite", 0), extrapolation |-> Default("mode", 0),
     residual_scale_error |-> Default("positive", 1), residual_scale_output |-> Default("positive", 1)],
    <<>>, {"schedule_variable", "setpoint", "measurement", "error", "integral_error",
           "derivative_error", "output"}, <<
    Read(<<"schedule_variable", "setpoint", "measurement", "error", "integral_error",
           "derivative_error", "output">>),
    Ask(<<"kp">>, "one_d_interp", <<Loc("schedule_variable"), Par("schedule_points"), Par("Kp_points"), Par("extrapolation")>>),
    Ask(<<"ki">>, "one_d_interp", <<Loc("schedule_variable"), Par("schedule_points"), Par("Ki_points"), Par("extrapolation")>>),
    Ask(<<"kd">>, "one_d_interp", <<Loc("schedule_variable"), Par("schedule_points"), Par("Kd_points"), Par("extrapolation")>>),
    Yield(<<
      Rec("equation", Loc("error") \ominus (Loc("setpoint") \ominus Loc("measurement")), Par("residual_scale_error")),
      Rec("equation", Loc("output") \ominus ((Loc("kp") \otimes Loc("error")) \oplus (Loc("ki") \otimes Loc("integral_error"))
          \oplus (Loc("kd") \otimes Loc("derivative_error")) \oplus Par("bias")), Par("residual_scale_output"))>>)>>)

AntiWindupClampModule == Native(
    Scaled([integral_lower |-> Given("finite", 0), integral_upper |-> Given("finite", 2),
            output_lower |-> Given("finite", 0), output_upper |-> Given("finite", 2)]),
    <<Par("integral_lower") \prec Par("integral_upper"), Par("output_lower") \prec Par("output_upper")>>,
    {"integral_state", "output_saturated"}, <<
    Read(<<"integral_state", "output_saturated">>),
    Let("integral_res", Excess("integral_state", "integral_lower", "integral_upper")),
    Let("output_res", Excess("output_saturated", "output_lower", "output_upper")),
    Yield(<<PostCheck(Loc("integral_res")), PostCheck(Loc("output_res"))>>)>>)

SensorLowPassFilterStepModule == Native(
    Scaled([tau_s |-> Given("positive", 1), dt_s |-> Given("positive", 1)]), <<>>,
    {"true_value_current", "measured_previous", "measured_current"}, <<
    Read(<<"true_value_current", "measured_previous", "measured_current">>),
    Let("expected", Loc("measured_previous") \oplus ((Par("dt_s") \oslash Par("tau_s"))
                    \otimes (Loc("true_value_current") \ominus Loc("measured_previous")))),
    Yield(<<Equation(Loc("measured_current") \ominus Loc("expected"))>>)>>)

ActuatorDeadZoneModule == Native(
    Scaled([dead_zone |-> Given("nonneg", 0), gain |-> Default("finite", 1)]), <<>>, {"command", "output"}, <<
    Read(<<"command", "output">>),
    When(Abs(Loc("command")) \preceq Par("dead_zone"),
      <<Let("expected", Num(0))>>,
      <<Let("sign", Pick(Loc("command") \succ Num(0), Num(1), Num(-1))),
        Let("expected", Par("gain") \otimes (Loc("command") \ominus (Loc("sign") \otimes Par("dead_zone"))))>>),
    Yield(<<Equation(Loc("output") \ominus Loc("expected"))>>)>>)

ActuatorPositionFeedbackModule == Native(
    [command_to_position_gain |-> Default("finite", 1), feedback_gain |-> Default("finite", 1),
     feedback_offset |-> Default("finite", 0), residual_scale_position |-> Default("positive", 1),
     residual_scale_feedback |-> Default("positive", 1)], <<>>,
    {"command", "actual_position", "feedback_position"}, <<
    Read(<<"command", "actual_position", "feedback_position">>),
    Yield(<<
      Rec("equation", Loc("actual_position") \ominus (Par("command_to_position_gain") \otimes Loc("command")),
          Par("residual_scale_position")),
      Rec("equation", Loc("feedback_position") \ominus ((Par("feedback_gain") \otimes Loc("actual_position"))
          \oplus Par("feedback_offset")), Par("residual_scale_feedback"))>>)>>)

SignalDelayStepModule == Native(Scaled(<<>>), <<>>, {"input_previous", "output_current"}, <<
    Read(<<"input_previous", "output_current">>),
    Yield(<<Equation(Loc("output_current") \ominus Loc("input_previous"))>>)>>)

SampleAndHoldModule == Native(Scaled(<<>>), <<>>,
    {"input_current", "output_previous", "output_current", "hold_flag"}, <<
    Read(<<"input_current", "output_previous", "output_current", "hold_flag">>),
    Let("expected", Pick(Loc("hold_flag") \succeq Num(1), Loc("output_previous"), Loc("input_current"))),
    Yield(<<Equation(Loc("output_current") \ominus Loc("expected"))>>)>>)

UnitConversionAuditModule == Native(
    Scaled([factor |-> Given("finite", 2), offset |-> Default("finite", 0)]), <<>>,
    {"source_value", "target_value"}, <<
    Read(<<"source_value", "target_value">>),
    Yield(<<Equation(Loc("target_value") \ominus ((Par("factor") \otimes Loc("source_value")) \oplus Par("offset")))>>)>>)

(* The modules of this file, as default_module_registry registers them. *)
ControlModules ==
    [ControlErrorModule |-> ControlErrorModule, PIDAlgebraicModule |-> PIDAlgebraicModule,
     DiscreteIntegratorModule |-> DiscreteIntegratorModule,
     HysteresisStateCheckModule |-> HysteresisStateCheckModule,
     BooleanSwitchModule |-> BooleanSwitchModule,
     ThresholdStateCheckModule |-> ThresholdStateCheckModule, SaturationModule |-> SaturationModule,
     RateLimiterModule |-> RateLimiterModule, FirstOrderLagModule |-> FirstOrderLagModule,
     LookupTable1DModule |-> LookupTable1DModule, MapBoundsCheckModule |-> MapBoundsCheckModule,
     PIDControllerStepModule |-> PIDControllerStepModule,
     ActuatorFirstOrderSaturationModule |-> ActuatorFirstOrderSaturationModule,
     GainScheduledPIDModule |-> GainScheduledPIDModule, AntiWindupClampModule |-> AntiWindupClampModule,
     SensorLowPassFilterStepModule |-> SensorLowPassFilterStepModule,
     ActuatorDeadZoneModule |-> ActuatorDeadZoneModule,
     ActuatorPositionFeedbackModule |-> ActuatorPositionFeedbackModule,
     SignalDelayStepModule |-> SignalDelayStepModule, SampleAndHoldModule |-> SampleAndHoldModule,
     UnitConversionAuditModule |-> UnitConversionAuditModule]
=============================================================================
