------------------------------ MODULE MCMiner ------------------------------
(* Instances of Miner for TLC. *)
EXTENDS Miner

MCLines == {
    Malformed,
    \* the answer to the login
    << Field("error", Null),
       Field("result", << Field("id", "i"),
                          Field("job", <<Field("blob", "b"), Field("target", 5)>>),
                          Field("status", "OK") >>) >>,
    \* the answer to a share
    << Field("error", Null), Field("result", <<Field("status", "OK")>>) >>,
    \* a new job, and one without a blob
    << Field("method", "job"),
       Field("params", <<Field("blob", "b"), Field("target", 5)>>) >>,
    << Field("params", <<Field("target", 5)>>) >>
    }
=============================================================================
