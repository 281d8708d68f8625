------------------------------ MODULE MCRideCo -------------------------------
(* Instances of RideCo for TLC. *)
EXTENDS RideCoProperties, TLC

\* Every driver may be told to be idle in every region.
AnyHome == [d \in Drivers |-> Regions]

\* Trips and drivers are interchangeable where every driver has every home.
TripsAndDrivers == Permutations(Trips) \cup Permutations(Drivers)
==============================================================================
