------------------------------ MODULE Receipt ------------------------------
(***************************************************************************)
(* The money of a sale (lib/money.ts of the API and of the web client).    *)
(* Amounts are whole cents.  A discount is asked for in thousandths of a   *)
(* percent, one digit more than is kept, and is used and recorded in       *)
(* hundredths.  A BigInt has no width and its division truncates.          *)
(***************************************************************************)
EXTENDS Integers

FSE == INSTANCE FiniteSetsExt

Whole == 10000      \* 100.00 percent

DivTruncated(a, b) == IF a < 0 THEN -((-a) \div b) ELSE a \div b

\* decimalToScaledBigInt: the digits after the second decimal are cut off.
Parsed(discount) == DivTruncated(discount, 10)

\* The column is numeric(5,2): it rounds, half away from zero.
Stored(discount) == DivTruncated(IF discount < 0 THEN discount - 5 ELSE discount + 5, 10)

\* The sum over line items: [product -> quantity], at [product -> price].
Subtotal(items, price) == FSE!MapThenSumSet(LAMBDA p : price[p] * items[p], DOMAIN items)

\* Mutant of Discounted: the fraction of a cent is cut off.
Discounted_CutOff(subtotal, discount) ==
    DivTruncated(subtotal * (Whole - discount), Whole)

\* computeReceiptTotalCents: rounded half up.
Discounted(subtotal, discount) ==
    DivTruncated(subtotal * (Whole - discount) + Whole \div 2, Whole)

\* computeSaleTotals: what the form may show.  It keeps the discount between 0 and
\* 100 percent and computes in floating point, so half a cent goes either way.
Shown(subtotal, discount) ==
    LET kept == CASE discount < 0     -> Whole
                  [] discount > Whole -> 0
                  [] OTHER            -> Whole - discount
    IN  {t \in 0 .. subtotal : /\ -Whole <= 2 * (subtotal * kept - t * Whole)
                               /\ 2 * (subtotal * kept - t * Whole) <= Whole}

=============================================================================
