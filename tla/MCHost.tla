-------------------------------- MODULE MCHost --------------------------------
EXTENDS Host, TLC

CONSTANTS lo, a, b, nosuch

\* Nothing, each interface, one that does not exist, and two of them.
MCRequests ==
  {<<>>, <<lo>>, <<a>>, <<b>>, <<nosuch>>, <<a, b>>, <<b, a>>}

MCSymmetry == Permutations({a, b})
===============================================================================
