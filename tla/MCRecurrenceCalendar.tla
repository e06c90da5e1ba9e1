------------------------ MODULE MCRecurrenceCalendar -----------------------
(* Fifteen months from a 15 January, into a leap year (2024) and into a year *)
(* that 4 divides and is none (2100).                                        *)
EXTENDS RecurrenceCalendar

MCStartYears == {2023, 2099}
=============================================================================
