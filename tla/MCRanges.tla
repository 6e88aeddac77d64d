------------------------------ MODULE MCRanges -------------------------------
(* Zones and requests for TLC. *)
EXTENDS Ranges, TLC

At(y, m, d, h) == UTC(y, m - 1, d) + h * HOUR

\* New York goes back from two to one, Sao Paulo forward at midnight and back at midnight,
\* Lord Howe back by half an hour, Apia over a whole day, and Kolkata not at all.
NewYork == [from |-> -4 * HOUR, at |-> At(2024, 11, 3, 6), to |-> -5 * HOUR]
SaoPauloForward == [from |-> -3 * HOUR, at |-> At(2018, 11, 4, 3), to |-> -2 * HOUR]
SaoPauloBack == [from |-> -2 * HOUR, at |-> At(2018, 2, 18, 2), to |-> -3 * HOUR]
LordHowe == [from |-> 11 * HOUR, at |-> At(2024, 4, 6, 15), to |-> (21 * HOUR) \div 2]
Apia == [from |-> -10 * HOUR, at |-> At(2011, 12, 30, 10), to |-> 14 * HOUR]
Kolkata == [from |-> (11 * HOUR) \div 2, at |-> 0, to |-> (11 * HOUR) \div 2]

AllZones == {NewYork, SaoPauloForward, SaoPauloBack, LordHowe, Apia, Kolkata}

\* The days around the change, which is on a Sunday but for Apia's, or around the ends of
\* a February, of a March and of a year that ends with a Sunday.
FromTheChange ==
    [z \in AllZones |->
        IF z = Kolkata THEN {At(2024, 2, 28, 12), At(2023, 3, 30, 18), At(2023, 12, 31, 0)}
                       ELSE {z.at - 10 * HOUR}]

Chart(bucket, amount, unit) == [bucket |-> bucket, amount |-> amount, unit |-> unit]

WholeBuckets == {Chart(b, n, b) : b \in {"h", "d", "w", "m", "y"}, n \in 1..2}
                    \cup {Chart("d", 1, "m"), Chart("d", 1, "y")}

\* Of the present, and around the day a month or a year ago, where a chart of days begins.
AroundTheStart ==
    [r \in WholeBuckets |->
        {0} \cup {d * DAY : d \in CASE r.bucket = "d" /\ r.unit = "m" -> 28..31
                                  [] r.bucket = "d" /\ r.unit = "y" -> 365..366
                                  [] OTHER -> {}}]
=============================================================================
