---------------------------- MODULE MCBandwidth ----------------------------
EXTENDS Bandwidth

CONSTANTS a1, a2, a3, a4, d1

MCPO_NAME == [seqread |-> "seqread", seqwrite |-> "seqwrite", randread |-> "randread",
              randwrite |-> "randwrite", bw |-> "bw", lat_bw |-> "po_name",
              test |-> "x"]
MCNames == {"seqread", "seqwrite", "randread", "randwrite", "bw", "po_name", "x", "y"}
MCThreadNum == <<1, 2, 4>>
MCponames == <<"x", "y">>
=============================================================================
