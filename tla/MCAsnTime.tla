----------------------------- MODULE MCAsnTime ------------------------------
(* AsnTime with the code's 30-year cache and two-second days: clocks and   *)
(* injected times around leap years and the years two digits can tell, and *)
(* dates before, at, inside and behind the ends of the cached ranges.      *)
EXTENDS AsnTime

At(y, m, d, s) == [y |-> y, m |-> m, d |-> d, s |-> s]

StampAt(y, m, d, s) == ExactStamp(At(y, m, d, s))

MCClocks == {StampAt(2000, 1, 1, 0), StampAt(2025, 12, 31, 1), StampAt(2026, 1, 1, 0)}

MCInjected == {0, StampAt(2000, 2, 29, 1), StampAt(2049, 12, 31, 1), StampAt(2050, 1, 1, 0),
               StampAt(2100, 12, 31, 0)}

MCDates == {At(1969, 12, 31, 1), At(1970, 1, 1, 0), At(1970, 1, 1, 1), At(1971, 3, 1, 0),
            At(1995, 12, 31, 1), At(1996, 2, 29, 1), At(2000, 2, 29, 0), At(2000, 12, 31, 1),
            At(2025, 2, 29, 0), At(2025, 13, 1, 0), At(2026, 1, 0, 0), At(2030, 12, 31, 1),
            At(2050, 1, 1, 0), At(2055, 12, 31, 0), At(2056, 12, 31, 1), At(2057, 1, 1, 0),
            At(2100, 2, 29, 0), At(2130, 12, 31, 1), At(2131, 3, 1, 0)}

(* A clock that was never set, or that time() cannot read.                 *)
EarlyClocks == {NoTime, StampAt(1970, 1, 1, 1), StampAt(1999, 12, 31, 1), StampAt(2026, 1, 1, 0)}
=============================================================================
