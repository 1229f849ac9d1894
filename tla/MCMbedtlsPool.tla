---------------------------- MODULE MCMbedtlsPool ----------------------------
EXTENDS MbedtlsPool

\* Two exact sizes, one that is rounded, a large one, none at all, and three
\* that overflow: the product, the rounding, and the product to 8 bytes.
MCRequests == {<<1, 8>>, <<3, 7>>, <<5, 8>>, <<2, 40>>, <<0, 8>>,
               <<2, 128>>, <<1, 250>>, <<3, 88>>}
=============================================================================
