---------------------------- MODULE NativeHelpers ----------------------------
(***************************************************************************)
(* The native helpers residual methods call: their parameters and bodies.  *)
(***************************************************************************)
EXTENDS Formulas

(* components/_common.py: value at x of the map given by two tables. *)
one_d_interp == [args |-> <<"x", "x_points", "y_points", "extrapolation">>, body |-> <<
    When(Within(FirstOf(Loc("x_points")), Loc("x"), LastOf(Loc("x_points"))),
      <<Give(<<Fn(<<Loc("x"), Loc("x_points"), Loc("y_points")>>)>>)>>, <<>>),
    When(Loc("extrapolation") \doteq Num(0), <<Stop>>, <<>>),
    When(Loc("extrapolation") \doteq Num(1),
      <<Give(<<Pick(Loc("x") \prec FirstOf(Loc("x_points")), FirstOf(Loc("y_points")), LastOf(Loc("y_points")))>>)>>, <<>>),
    Stop>>]

(* x and y are outside the table. *)
Outside == Either(Loc("x") \prec FirstOf(Loc("x_points")), Either(Loc("x") \succ LastOf(Loc("x_points")),
           Either(Loc("y") \prec FirstOf(Loc("y_points")), Loc("y") \succ LastOf(Loc("y_points")))))
Clamped(v, axis) == Low(High(Loc(v), FirstOf(Loc(axis))), LastOf(Loc(axis)))
bilinear_interp == [args |-> <<"x", "y", "x_points", "y_points", "z_values", "extrapolation">>, body |-> <<
    When(Outside,
      <<When(Loc("extrapolation") \doteq Num(0), <<Stop>>, <<>>),
        Let("x", Clamped("x", "x_points")), Let("y", Clamped("y", "y_points"))>>, <<>>),
    Let("x_index", Fn(<<Loc("x_points"), Loc("x")>>)),
    Let("y_index", Fn(<<Loc("y_points"), Loc("y")>>)),
    Let("x0", Entry(Loc("x_points"), Loc("x_index"))), Let("x1", Entry(Loc("x_points"), Loc("x_index") \oplus Num(1))),
    Let("y0", Entry(Loc("y_points"), Loc("y_index"))), Let("y1", Entry(Loc("y_points"), Loc("y_index") \oplus Num(1))),
    Let("z", Fn(<<Entry(Loc("z_values"), Loc("y_index")), Entry(Loc("z_values"), Loc("x_index"))>>)),
    Let("tx", Pick(Loc("x1") \doteq Loc("x0"), Num(0), Fn(<<Loc("x"), Loc("x0"), Loc("x1")>>))),
    Let("ty", Pick(Loc("y1") \doteq Loc("y0"), Num(0), Fn(<<Loc("y"), Loc("y0"), Loc("y1")>>))),
    Give(<<Fn(<<Loc("tx"), Loc("ty"), Loc("z")>>)>>)>>]

(* control.py: LookupTable1DModule._interpolate. *)
interpolate == [args |-> <<"value">>, body |-> <<
    Let("x_values", Par("x_points")), Let("y_values", Par("y_points")),
    When(Within(FirstOf(Loc("x_values")), Loc("value"), LastOf(Loc("x_values"))),
      <<Give(<<Fn(<<Loc("value"), Loc("x_values"), Loc("y_values")>>)>>)>>, <<>>),
    When(Par("extrapolation") \doteq Num(0), <<Stop>>, <<>>),
    When(Par("extrapolation") \doteq Num(1),
      <<Give(<<Pick(Loc("value") \prec FirstOf(Loc("x_values")), FirstOf(Loc("y_values")), LastOf(Loc("y_values")))>>)>>, <<>>),
    When(Loc("value") \prec FirstOf(Loc("x_values")),
      <<Let("x0", FirstOf(Loc("x_values"))), Let("x1", Entry(Loc("x_values"), Num(1))),
        Let("y0", FirstOf(Loc("y_values"))), Let("y1", Entry(Loc("y_values"), Num(1)))>>,
      <<Let("x0", Entry(Loc("x_values"), Num(-2))), Let("x1", LastOf(Loc("x_values"))),
        Let("y0", Entry(Loc("y_values"), Num(-2))), Let("y1", LastOf(Loc("y_values")))>>),
    Let("slope", Fn(<<Loc("y1") \ominus Loc("y0"), Loc("x1") \ominus Loc("x0")>>)),
    Give(<<Loc("y0") \oplus (Loc("slope") \otimes (Loc("value") \ominus Loc("x0")))>>)>>]

(* components/_common.py: refuses a denominator below its floor. *)
check_denominator == [args |-> <<"value_obj", "min_abs">>, body |-> <<
    When(Abs(Loc("value_obj")) \prec Loc("min_abs"), <<Stop>>, <<>>),
    Give(<<Num(0)>>)>>]

(* components/fluid_machines.py *)
safe_pressure_ratio == [args |-> <<"p_in", "p_out", "minimum">>, body |-> <<
    When(Abs(Loc("p_in")) \prec Loc("minimum"), <<Stop>>, <<>>),
    Let("pressure_ratio", Loc("p_out") \oslash Loc("p_in")),
    When(Loc("pressure_ratio") \preceq Num(0), <<Stop>>, <<>>),
    Give(<<Loc("pressure_ratio")>>)>>]
safe_efficiency == [args |-> <<"efficiency">>, body |-> <<
    When(Loc("efficiency") \preceq Num(0), <<Stop>>, <<>>),
    Give(<<Loc("efficiency")>>)>>]
compressor_temperature_power ==
  [args |-> <<"t_in", "m_dot", "efficiency", "pressure_ratio", "cp", "gamma">>, body |-> <<
    Ask(<<"safe_efficiency">>, "_safe_efficiency", <<Loc("efficiency")>>),
    Let("exponent", (Loc("gamma") \ominus Num(1)) \oslash Loc("gamma")),
    Let("rise_factor", Fn(<<Loc("pressure_ratio"), Loc("exponent")>>)),
    Give(<<Loc("t_in") \otimes (Num(1) \oplus (Loc("rise_factor") \oslash Loc("safe_efficiency"))),
           (Loc("m_dot") \otimes Loc("cp") \otimes Loc("t_in") \otimes Loc("rise_factor"))
               \oslash Loc("safe_efficiency")>>)>>]

Helper(fn) ==
    CASE fn = "one_d_interp" -> one_d_interp
      [] fn = "bilinear_interp" -> bilinear_interp
      [] fn = "_interpolate" -> interpolate
      [] fn = "check_denominator" -> check_denominator
      [] fn = "_safe_pressure_ratio" -> safe_pressure_ratio
      [] fn = "_safe_efficiency" -> safe_efficiency
      [] fn = "_compressor_temperature_power" -> compressor_temperature_power
=============================================================================
