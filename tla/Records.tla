------------------------------ MODULE Records ------------------------------
(***************************************************************************)
(* How a row of the CSV becomes a record, src/scripts/make_shards.py, as   *)
(* far as it decides whether the row can be written at all.  A cell is     *)
(* told by its shape, a converted value by the bits it may need, and       *)
(* Raised stands for an exception that the conversion lets through.        *)
(***************************************************************************)
EXTENDS Naturals, Sequences

(* None or empty; a number that fits its field (for a date or a code: a    *)
(* text the conversion knows); a number beyond it; any other text.  A      *)
(* coordinate is "huge" beyond the range of a float but within a double's: *)
(* what exceeds both is read as an infinity, which fits.                   *)
Cells == {"missing", "good", "huge", "other"}

Columns == {"key", "latitude", "longitude", "zip", "created", "status", "borough"}

Rows == [Columns -> Cells]

Raised == 99

(* RECORD_FMT "<iffIHBB": the bytes of each field.                         *)
FieldBytes == [key |-> 4, latitude |-> 4, longitude |-> 4, zip |-> 4,
               created |-> 2, status |-> 1, borough |-> 1]

(* int(row.get("Unique Key") or 0)                                         *)
ParseKey(cell) ==
    CASE cell = "missing" -> 0
      [] cell = "good"    -> 32
      [] cell = "huge"    -> 33
      [] cell = "other"   -> Raised

(* Faulty: only ValueError is caught, and float(None) raises TypeError.    *)
ParseFloatNotNone(cell) ==
    CASE cell = "missing" -> Raised
      [] cell = "other"   -> 0
      [] cell = "good"    -> 32
      [] cell = "huge"    -> 33

(* What is no number is 0.0.                                               *)
ParseFloat(cell) ==
    CASE cell \in {"missing", "other"} -> 0
      [] cell = "good"                 -> 32
      [] cell = "huge"                 -> 33

(* The first five digits in a row, wherever they are: below 2^17.          *)
ParseZip(cell) == IF cell = "missing" THEN 0 ELSE 17

(* A year of four digits in one of three formats, or the first 19xx or     *)
(* 20xx in the text, or 0: below 2^14.                                     *)
ParseYear(cell) == IF cell = "missing" THEN 0 ELSE 14

(* STATUS and BOROUGH have five codes.                                     *)
CodeBits == 3

(* A code, or 0 for a text that has none.                                  *)
Code(cell) == IF cell = "good" THEN CodeBits ELSE 0

RowToRecord(row) ==
    [ key       |-> ParseKey(row["key"]),
      latitude  |-> ParseFloat(row["latitude"]),
      longitude |-> ParseFloat(row["longitude"]),
      zip       |-> ParseZip(row["zip"]),
      created   |-> ParseYear(row["created"]),
      status    |-> Code(row["status"]),
      borough   |-> Code(row["borough"]) ]

(* struct.pack raises an error for a value that is too large for its field. *)
Packs(row) == \A c \in Columns : RowToRecord(row)[c] <= 8 * FieldBytes[c]
=============================================================================
