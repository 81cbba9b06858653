------------------------------ MODULE MCStores ------------------------------
(***************************************************************************)
(* The instance for TLC of the components that keep files and caches of    *)
(* them and share nothing: one table with its history under every fault,   *)
(* revisions and caches, tombstones, the list of mods, the gateway's       *)
(* tokens and its accounts.  part is the component a behaviour is about;   *)
(* the others rest in an initial state of theirs.                          *)
(***************************************************************************)
EXTENDS MCCfgStore, Revision, Tombstones, ModList, GatewayTokens, GatewayAccounts, TLC

CONSTANTS m1, m2, r1, r2, i2

\* Each request comes from a front end of its own, with a revision of its own.
TwoFrontEnds == [t \in {r1, r2} |-> t]

\* The tombstone files are empty, or hold one id of an earlier session.
EarlierFiles == {{}, {i2}}

VARIABLE part

StoresVars == <<part, vars, revVars, tombVars, modsVars, gtVars, gaVars>>

Parts == {"table", "revision", "tombstones", "list", "tokens", "accounts"}

StoresInit ==
    /\ part \in Parts
    /\ Init /\ RevInit /\ TombInit /\ ModsInit /\ GtInit /\ GaInit
    /\ part # "table" => file = none
    /\ revMod = m1 /\ tombMod = m1
    /\ tombFile = [m \in TombMods |-> IF part = "tombstones" /\ m = m2 THEN {i2} ELSE {}]
    /\ part # "list" => modsOnDisk = {}

StoresNext ==
    /\ UNCHANGED part
    /\ \/ /\ part = "table" /\ Next
          /\ UNCHANGED <<revVars, tombVars, modsVars, gtVars, gaVars>>
       \/ /\ part = "revision" /\ RevNext
          /\ UNCHANGED <<vars, tombVars, modsVars, gtVars, gaVars>>
       \/ /\ part = "tombstones" /\ TombNext
          /\ UNCHANGED <<vars, revVars, modsVars, gtVars, gaVars>>
       \/ /\ part = "list" /\ ModsNext
          /\ UNCHANGED <<vars, revVars, tombVars, gtVars, gaVars>>
       \/ /\ part = "tokens" /\ GtNext
          /\ UNCHANGED <<vars, revVars, tombVars, modsVars, gaVars>>
       \/ /\ part = "accounts" /\ GaNext
          /\ UNCHANGED <<vars, revVars, tombVars, modsVars, gtVars>>

StoresSpec == StoresInit /\ [][StoresNext]_StoresVars

\* Requests with their front ends are interchangeable.
Alike == Permutations({r1, r2})
=============================================================================
