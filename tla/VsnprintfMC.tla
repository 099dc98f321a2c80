----------------------------- MODULE VsnprintfMC -----------------------------
(* Formats for Vsnprintf: every conversion, one with a prefix, plain letters  *)
(* (one of which is a conversion after a '%'), a doubled '%', an unknown      *)
(* letter. One byte stands for a long.                                        *)
EXTENDS Vsnprintf

MCItems ==
    {[chars |-> <<65>>, kind |-> "text"],
     [chars |-> <<d_>>, kind |-> "text"],
     [chars |-> <<Percent, d_>>, kind |-> "d"],
     [chars |-> <<Percent, l_, d_>>, kind |-> "d"],
     [chars |-> <<Percent, x_>>, kind |-> "x"],
     [chars |-> <<Percent, p_>>, kind |-> "p"],
     [chars |-> <<Percent, s_>>, kind |-> "s"],
     [chars |-> <<Percent, c_>>, kind |-> "c"],
     [chars |-> <<Percent, Percent>>, kind |-> "bad"],
     [chars |-> <<Percent, 117>>, kind |-> "bad"]}

MCNumbers == {-128, -10, 0, 10, 100}
MCStrings == {<<>>, <<66, 67>>}
MCPointers == {7, 127}
==============================================================================
