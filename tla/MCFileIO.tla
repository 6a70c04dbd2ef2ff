------------------------------ MODULE MCFileIO ------------------------------
(* An arena of five bytes, one name, a text longer than stdio's buffer of   *)
(* two bytes, limits that cut texts off and one that is no size.             *)
EXTENDS FileIO

P == <<"p">>
XYZ == <<"x", "y", "z">>

MCTexts == {<<>>, P, XYZ}
MCNames == {P}
MCNodes == {[kind |-> "file", data |-> XYZ], [kind |-> "file", data |-> <<"z", "z">>],
            [kind |-> "dir", data |-> <<>>]}
MCLimits == {-1, 2}
=============================================================================
