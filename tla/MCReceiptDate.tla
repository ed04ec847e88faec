---------------------------- MODULE MCReceiptDate ----------------------------
(* Instances of ReceiptDate for TLC.                                       *)
EXTENDS ReceiptDate, TLC

Printed(form, first, second, year, clock, sep, mark) ==
  [form |-> form, first |-> first, second |-> second, year |-> year, delim |-> "-",
   clock |-> clock, sep |-> sep, mark |-> mark]

\* Two dates of each form, whole and broken ones among them.
Receipts == {
  Printed("dayMonth", 4, 4, 2026, <<>>, "space", "none"),
  Printed("dayMonth", 31, 2, 2026, <<>>, "space", "none"),
  Printed("monthDay", 4, 8, 2026, <<10, 30>>, "space", "PM"),
  Printed("monthDay", 2, 29, 2100, <<>>, "space", "none"),
  Printed("yearFirst", 4, 8, 2026, <<14, 30, 0>>, "space", "none"),
  Printed("yearFirst", 4, 9, 2026, <<14, 30, 15>>, "T", "Z"),
  Printed("yearFirst", 4, 9, 2026, <<14, 30>>, "T", "Z"),
  Printed("numeric", 15, 3, 2026, <<24, 10>>, "space", "none"),
  Printed("numeric", 3, 15, 2026, <<9, 5>>, "space", "PM"),
  Printed("numeric", 4, 5, 2026, <<>>, "space", "none")}

\* Numbers at the limits of the calendar and of the day, in the forms that
\* both services know.
Corners == {
  Printed("numeric", 12, 13, 2026, <<23, 59>>, "space", "none"),
  Printed("numeric", 0, 1, 1970, <<>>, "space", "none"),
  Printed("numeric", 29, 2, 2024, <<0, 59, 60>>, "space", "none"),
  Printed("numeric", 5, 4, 2026, <<14, 30>>, "T", "none"),
  Printed("yearFirst", 13, 12, 2026, <<>>, "space", "none"),
  Printed("yearFirst", 2, 29, 2024, <<23, 59, 59>>, "T", "Z"),
  Printed("yearFirst", 12, 31, 1969, <<>>, "space", "none"),
  Printed("yearFirst", 1, 1, 2101, <<>>, "space", "none"),
  Printed("dayMonth", 30, 4, 2026, <<9, 5>>, "space", "none"),
  Printed("monthDay", 12, 31, 2026, <<>>, "space", "Z")}

MCPrints ==
  Receipts \cup Corners
    \cup {[m EXCEPT !.delim = "/"] : m \in {p \in Receipts \cup Corners : p.mark = "none"}}

=============================================================================
