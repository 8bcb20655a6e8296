-------------------------- MODULE MCNachosMonitors --------------------------
(***************************************************************************)
(* Programs for NachosMonitors: the philosophers of ThreadTest, threads    *)
(* that meet at a barrier, producers and consumers, readers of the disk.   *)
(***************************************************************************)
EXTENDS NachosMonitors

CONSTANTS t0, t1, t2, t3, mutex

MCInitial(s) == 1

Boot == <<Fork_(t1), Fork_(t2), Fork_(t3)>>
Meal(i) == <<Pickup(i), YieldCall, Putdown(i)>>

Programs_(p0, p1, p2, p3) == (t0 :> p0) @@ (t1 :> p1) @@ (t2 :> p2) @@ (t3 :> p3)

MCPrograms ==
    { Programs_(Boot, Meal(0), Meal(1) \o Meal(1), Meal(2)),
      Programs_(Boot, <<Meet, Meet>>, <<Meet, Meet>>, <<Meet, Meet>>),
      Programs_(Boot, <<Get, ReadSector>>, <<ReadSector>>, <<ReadSector, Put>>),
      Programs_(Boot \o <<Get>>, <<Down(mutex), Put, Up(mutex)>>,
                <<Down(mutex), Put, Up(mutex)>>, <<Get>>) }
=============================================================================
