----------------------------- MODULE MCCfgStore -----------------------------
(* Small instances of CfgStore for TLC.                                    *)
EXTENDS CfgStore

CONSTANTS a, b, garbled, mangled, none, notext

\* `garbled` is not valid UTF-8: decoding it gives `mangled` (U+FFFD inside).
MCBodies == {a, b, garbled, mangled}
MCDecode == [x \in MCBodies |-> IF x = garbled THEN mangled ELSE x]
OneTable  == {a}
TwoTables == {a, b}

NoFaults      == {}
SnapshotFails == {"snapshot"}
SyncOnly      == {"sync"}
Snapshots  == {TRUE}

FirstTables  == {none, Encode(b, FALSE)}
PlainTable   == {Encode(a, FALSE)}
NoTable      == {none}
ForeignFiles == {Encode(garbled, TRUE)}
=============================================================================
