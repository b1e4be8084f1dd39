------------------------------- MODULE MCRelease -------------------------------
(***************************************************************************)
(* Two versions of a game, and a folder without a version number.  Six     *)
(* files of the folder differ from the first version, which four threads   *)
(* share as 2, 2 and 2, and five from the second, which they cannot share; *)
(* three of the first version differ from the second, and two of them have *)
(* one place when ./bin is cut off.                                        *)
(***************************************************************************)
EXTENDS Release, TLC

CONSTANTS v1, v2, draft, a, b, t1, t2

Game    == <<"bin", "game.exe">>
Map     == <<"bin", "Data", "map">>
Tune    == <<"bin", "Data", "tune">>
Notes   == <<"bin", "notes">>
Readme  == <<"bin", "readme">>
Song    == <<"bin", "sound">>
RootMap == <<"Data", "map">>

Listing == <<RootMap, Map, Tune, Game, Notes, Readme, Song>>

MCPage    == {Listing[i] : i \in DOMAIN Listing}
MCRank    == [f \in {v1, v2, draft} |-> [p \in MCPage |->
                (IF f = v1 THEN 0 ELSE 10) + CHOOSE i \in DOMAIN Listing : Listing[i] = p]]
MCCopied  == {<<v1, Map>>, <<v2, Game>>}
MCUnreadable == {Tune}
MCVersion == v1 :> 1 @@ v2 :> 2 @@ draft :> 0
MCSize    == a :> 1 @@ b :> 2

Tree(f) == [p \in MCPage |-> IF p \in DOMAIN f THEN f[p] ELSE Absent]

MCStart == {v1 :> Tree(Game :> a @@ Map :> a @@ RootMap :> b)
            @@ v2 :> Tree(Map :> b)
            @@ draft :> [p \in MCPage |-> IF p = RootMap THEN Absent ELSE b]}
=============================================================================
