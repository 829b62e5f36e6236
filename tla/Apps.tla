-------------------------------- MODULE Apps --------------------------------
(***************************************************************************)
(* The desktop's applications with state of their own: Notes (in Ramfs),   *)
(* Calculator and Paint.  desktop_open_app shows one at a time and opening *)
(* one resets what it left behind; they share nothing, so a behaviour      *)
(* follows the use of one of them.                                         *)
(***************************************************************************)
EXTENDS Ramfs, Calculator, Paint

VARIABLE session

appVars == <<vars, calcVars, paintVars, session>>

AppsInit ==
    /\ Init /\ CalcInit /\ PaintInit
    /\ session \in {"files", "calculator", "paint"}

AppsNext ==
    \/ session = "files" /\ Next /\ UNCHANGED <<calcVars, paintVars, session>>
    \/ /\ session = "calculator" /\ (app_calc_open \/ CalcNext)
       /\ UNCHANGED <<vars, paintVars, session>>
    \/ session = "paint" /\ PaintNext /\ UNCHANGED <<vars, calcVars, session>>

AppsSpec == AppsInit /\ [][AppsNext]_appVars
=============================================================================
