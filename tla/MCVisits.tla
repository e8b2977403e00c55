------------------------------- MODULE MCVisits -------------------------------
EXTENDS Visits, TLC

MCSizeOf == <<2, 1>>
MCBatches == <<<<2, 3>>, <<4>>>>
MCContents == <<1, 2, 3, 1>>
MCCommandsFor == ("" :> 2) @@ ("d" :> 1) @@ ("dis" :> 1) @@ ("xyz" :> 0)
=============================================================================
