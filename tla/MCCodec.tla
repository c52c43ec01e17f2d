-------------------------------- MODULE MCCodec --------------------------------
EXTENDS Codec

\* Texts of no, one and three bytes, one of which looks like a header; one as
\* long as a body of length -8 and one of length 0; one whose length starts
\* again at 2.  Request and answer have no data.
MCMessage ==
    [command : {2, 3}, data : {<<>>}]
    \cup [command : {1}, data : {<<1>>, <<1, 3, 0>>} \cup
                                {[i \in 1 .. n |-> 1] : n \in {7, 15, 17}}]
=============================================================================
