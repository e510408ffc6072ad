-------------------------------- MODULE MCKiss --------------------------------
(* Model-checking instance of Kiss: no data, each byte that is escaped, the    *)
(* second half of an escape as data, and data of the maximal length.           *)
EXTENDS Kiss

DatasEach == {<<>>, <<FESC>>, <<TFEND, FEND>>}

=============================================================================
