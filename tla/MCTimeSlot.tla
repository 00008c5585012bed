----------------------------- MODULE MCTimeSlot -----------------------------
(***************************************************************************)
(* Every slot of a calendar of short hours and days, with offsets of whole *)
(* hours on both sides of UTC and one of half an hour.                     *)
(***************************************************************************)
EXTENDS TimeSlotProperties

MCOffsets == {-HourTicks, 0, HourTicks \div 2, HourTicks}
=============================================================================
