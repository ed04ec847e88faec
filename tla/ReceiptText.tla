----------------------------- MODULE ReceiptText -----------------------------
(***************************************************************************)
(* What parseWithRegex reads in the text of a receipt: amount, transaction *)
(* id and bank beside the date of ReceiptDate, and the amount that the     *)
(* Python service makes of one that the LLM quotes.  A text is a sequence  *)
(* of tokens with white space between them: dates, figures, the labels of  *)
(* transactionIdRegex, names of banks, and other words.                    *)
(***************************************************************************)
EXTENDS ReceiptDate, SequencesExt

CONSTANTS
  Tokens,    \* what a receipt may show
  MaxTokens  \* bound: tokens in one text

\* A figure is made of runs of digits and what precedes each: 1,250.00 has the
\* widths 1, 3 and 2.
Part == [sep : {"none", "comma", "point"}, width : Nat \ {0}, value : Nat]

LabelNames == {"tx", "transaction", "reference", "ref"}

BankNames == <<"CBE", "Commercial Bank of Ethiopia", "Awash", "Abyssinia", "Dashen",
               "Hibret", "Telebirr">>

\* run: how many letters, digits and dashes the token begins with.
Token ==
  [kind : {"date"}, date : Prints, run : Nat] \cup [kind : {"figure"}, parts : Seq(Part), run : Nat]
    \cup [kind : {"label"}, name : LabelNames, run : Nat]
    \cup [kind : {"bank"}, name : Range(BankNames), run : Nat]
    \cup [kind : {"word"}, run : Nat]

ASSUME TextAssumption ==
  /\ Tokens \subseteq Token
  /\ \A tok \in Tokens : tok.kind = "figure" =>
       /\ tok.parts # <<>> /\ tok.parts[1].sep = "none"
       /\ \A k \in 1..Len(tok.parts) : tok.parts[k].width <= 3 => tok.parts[k].value <= 999
  /\ MaxTokens \in Nat

VARIABLES
  lines,          \* the whole text; ReceiptDate has the dates in it
  amount, transactionId, bankName

textVars == <<dateVars, lines, amount, transactionId, bankName>>

-----------------------------------------------------------------------------
(* Decimal numbers, as few digits and places as there can be.              *)

Decimal(n, s) ==
  LET zeros == Max({k \in 0..s : n % (10^k) = 0})
  IN  [digits |-> n \div (10^zeros), scale |-> s - zeros]

Glue(n, part) == n * 10^part.width + part.value
Joined(parts) == FoldLeft(Glue, 0, parts)

AddWidth(n, part) == n + part.width
Width(parts) == FoldLeft(AddWidth, 0, parts)

Separated(parts, by) == {k \in 2..Len(parts) : parts[k].sep = by}

-----------------------------------------------------------------------------
(* amountRegex.                                                            *)

\* The digits before the point alone.
GroupsFrom_Last(parts, k) == k

\* Commas join groups of three digits only, back to where that ends.
GroupsFrom(parts, k) == Min({j \in 1..k : \A i \in (j + 1)..k : parts[i].width = 3})

\* Before a group stand three digits at most.
HeadDigits(part, grouped) == IF grouped THEN [part EXCEPT !.value = @ % 1000] ELSE part

\* One or two digits behind the point.
Cents(part) ==
  IF part.width <= 2 THEN part
  ELSE [part EXCEPT !.width = 2, !.value = @ \div 10^(part.width - 2)]

\* No match without a point.
AmountIn(parts) ==
  IF Separated(parts, "point") = {} THEN Null
  ELSE LET point == Min(Separated(parts, "point"))
           from == GroupsFrom(parts, point - 1)
           cents == Cents(parts[point])
       IN  Decimal(Joined(<<HeadDigits(parts[from], from < point - 1)>>
                            \o SubSeq(parts, from + 1, point - 1) \o <<cents>>),
                   cents.width)

Run(value, width, sep) == [sep |-> sep, width |-> width, value |-> value]

\* A date with dots is digits with dots; day and month have two digits.
Figures(tok) ==
  CASE tok.kind = "figure" -> tok.parts
    [] tok.kind = "date" /\ tok.date.delim = "." /\ tok.date.form = "numeric" ->
         <<Run(tok.date.first, 2, "none"), Run(tok.date.second, 2, "point"),
           Run(tok.date.year, 4, "point")>>
    [] tok.kind = "date" /\ tok.date.delim = "." /\ tok.date.form = "yearFirst" ->
         <<Run(tok.date.year, 4, "none"), Run(tok.date.first, 2, "point"),
           Run(tok.date.second, 2, "point")>>
    [] OTHER -> <<>>

Amounts(t) == {i \in 1..Len(t) : AmountIn(Figures(t[i])) # Null}

\* The last one, where a total may stand.
FirstAmount_Last(hits) == Max(hits)

FirstAmount(hits) == Min(hits)

ExtractAmount(t) ==
  IF Amounts(t) = {} THEN Null ELSE AmountIn(Figures(t[FirstAmount(Amounts(t))]))

-----------------------------------------------------------------------------
(* transactionIdRegex.                                                     *)

FollowedByRun(t, i) == i < Len(t) /\ t[i + 1].run >= 6

\* "Reference" is "ref" followed by a run of six letters.
IdHits(t) ==
  {i \in 1..Len(t) : t[i].kind = "label" /\ (FollowedByRun(t, i) \/ t[i].name = "reference")}

ERENCE == [kind |-> "erence"]

ExtractTransactionId(t) ==
  IF IdHits(t) = {} THEN Null
  ELSE LET i == Min(IdHits(t))
       IN  IF FollowedByRun(t, i) THEN t[i + 1] ELSE ERENCE

-----------------------------------------------------------------------------
(* extractBankName.                                                        *)

Mentioned(t) ==
  {b \in 1..Len(BankNames) :
     \E i \in 1..Len(t) : t[i].kind = "bank" /\ t[i].name = BankNames[b]}

\* The first name of the list, not the first of the text.
ExtractBankName(t) == IF Mentioned(t) = {} THEN Null ELSE [bank |-> Min(Mentioned(t))]

-----------------------------------------------------------------------------
(* _normalize_amount of the Python service.                                *)

\* A comma is a decimal comma.
Points_EveryComma(parts) == Separated(parts, "comma") \cup Separated(parts, "point")

\* A comma is a decimal comma where there is no point.
Points(parts) ==
  IF Separated(parts, "point") = {} THEN Separated(parts, "comma") ELSE Separated(parts, "point")

NormalizeAmount(parts) ==
  CASE Points(parts) = {} -> Decimal(Joined(parts), 0)
    [] Cardinality(Points(parts)) = 1 ->
         Decimal(Joined(parts), Width(SubSeq(parts, Min(Points(parts)), Len(parts))))
    [] OTHER -> Null

-----------------------------------------------------------------------------

TextInit ==
  /\ DateInit
  /\ lines = <<>>
  /\ amount = Null /\ transactionId = Null /\ bankName = Null

\* A text with one more token in it.
ShowToken(tok) ==
  /\ lines' = Append(lines, tok)
  /\ IF tok.kind = "date" THEN Len(text) < MaxMentions /\ Show(tok.date)
     ELSE UNCHANGED dateVars
  /\ amount' = ExtractAmount(lines')
  /\ transactionId' = ExtractTransactionId(lines')
  /\ bankName' = ExtractBankName(lines')

TextNext ==
  /\ Len(lines) < MaxTokens
  /\ \E tok \in Tokens : ShowToken(tok)

TextSpec == TextInit /\ [][TextNext]_textVars

-----------------------------------------------------------------------------
(* Properties.                                                             *)

\* Groups of three digits behind at most three, and cents, if any.
Regular(parts) ==
  LET groups == Len(parts) - Cardinality(Separated(parts, "point"))
  IN  /\ Separated(parts, "point") \subseteq {Len(parts)}
      /\ groups < Len(parts) => parts[Len(parts)].width <= 2
      /\ groups > 1 => parts[1].width <= 3 /\ \A k \in 2..groups : parts[k].width = 3

\* The number that is printed.
PrintedNumber(parts) ==
  Decimal(Joined(parts), IF Separated(parts, "point") = {} THEN 0 ELSE parts[Len(parts)].width)

DottedDate(tok) == tok.kind = "date" /\ Figures(tok) # <<>>

\* Where figures are grouped as usual and no date is printed with dots, the
\* amount is the number of the first figure that has cents, whole; figures
\* without cents are passed over.  (15.03.2026 above it would be the amount 15.03.)
AmountIsPrinted ==
  LET figures == {i \in 1..Len(lines) : lines[i].kind = "figure"}
      withCents == {i \in figures : Separated(lines[i].parts, "point") # {}}
  IN  /\ \A i \in figures : Regular(lines[i].parts)
      /\ \A i \in 1..Len(lines) : ~DottedDate(lines[i])
      => amount = IF withCents = {} THEN Null
                   ELSE PrintedNumber(lines[Min(withCents)].parts)

\* A figure that is grouped as usual is the printed number for both programs, so
\* it does not matter which of them reads it.  Only a figure with commas and
\* without cents is another to the Python service (1,250 becomes 1.25), and the
\* backend leaves just those to it.
AmountsAgree ==
  \A i \in 1..Len(lines) :
    LET parts == lines[i].parts
    IN  /\ lines[i].kind = "figure"
        /\ Regular(parts)
        /\ Separated(parts, "comma") = {} \/ Separated(parts, "point") # {}
        => /\ NormalizeAmount(parts) = PrintedNumber(parts)
           /\ AmountIn(parts) \in {Null, PrintedNumber(parts)}

\* Two photos that differ in the lower lines of a receipt: the amount of the
\* upper lines stays, an identifier stays unless the cut was behind the word
\* "Reference", and the bank gives way to one that BANK_NAMES has earlier only.
LaterTextChangesLittle ==
  [][/\ amount # Null => amount' = amount
     /\ transactionId # Null /\ transactionId' # transactionId =>
          /\ transactionId = ERENCE
          /\ Last(lines).kind = "label" /\ Last(lines).name = "reference"
     /\ bankName # Null => bankName'.bank <= bankName.bank
    ]_textVars

=============================================================================
