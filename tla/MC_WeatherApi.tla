---------------------------- MODULE MC_WeatherApi ----------------------------
(* Constants for model-checking the weather API.                           *)
EXTENDS WeatherApi, TLC

CONSTANTS t1, t2, ro, fr, x

MCThreads == {t1, t2}
MCCountryNames == {ro, fr}
MCCityNames == {x}
MCWindows == {<<0, 1>>, <<2, 0>>}
MCSymmetry == Permutations(MCThreads) \cup Permutations(MCCountryNames)

(* No action and no guard looks at the last answer, and every property     *)
(* about it is checked on steps: states that differ in it alone are one.   *)
MCView == <<dbVars, pending, acked>>
=============================================================================
