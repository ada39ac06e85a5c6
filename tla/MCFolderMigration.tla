------------------------- MODULE MCFolderMigration -------------------------
EXTENDS FolderMigration

CONSTANTS a, b
==============================================================================
