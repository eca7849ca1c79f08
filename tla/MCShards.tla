------------------------------ MODULE MCShards ------------------------------
(* A leader and two nodes, one of which looks in two directories and one   *)
(* in the second of them only.  Records of two bytes: the shortest of      *)
(* which a part can be read.                                               *)
EXTENDS Shards

CONSTANTS A, B, C, Env, Cwd

NamesABC == <<A, B, C>>

RootsOfTwo == B :> <<Env, Cwd>> @@ C :> <<Cwd>>

GoodRow == [c \in Columns |-> "good"]

EmptyRow == [c \in Columns |-> "missing"]

OddRow == [c \in Columns |-> IF c = "key" THEN "good" ELSE "other"]

WildRow == [c \in Columns |-> IF c \in {"key", "latitude", "longitude"} THEN "missing" ELSE "huge"]

FarRow == [GoodRow EXCEPT !["longitude"] = "huge"]

JobOf(d, rows, limit) == [dir |-> d, rows |-> rows, limit |-> limit]

(* No row, fewer rows than nodes, a limit, two rows for a node, a row that *)
(* cannot be converted.                                                    *)
SmallJobs ==
    {JobOf(Cwd, <<>>, 0), JobOf(Env, <<GoodRow, EmptyRow>>, 0),
     JobOf(Env, <<GoodRow, GoodRow, OddRow, FarRow>>, 3),
     JobOf(Cwd, <<GoodRow, EmptyRow, WildRow, OddRow, GoodRow>>, 0),
     JobOf(Env, <<GoodRow, OddRow, GoodRow, GoodRow, FarRow>>, 0)}

(* The fields make up RECORD_SIZE bytes.                                   *)
ASSUME RecordLayout == FoldFunction(LAMBDA b, sum : b + sum, 0, FieldBytes) = 20
=============================================================================
