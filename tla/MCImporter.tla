----------------------------- MODULE MCImporter -----------------------------
EXTENDS Importer, MCSheets
=============================================================================
