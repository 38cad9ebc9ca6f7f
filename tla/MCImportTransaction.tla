------------------------ MODULE MCImportTransaction ------------------------
EXTENDS ImportTransaction, MCSheets

Symmetric == Permutations(Uploads)
=============================================================================
