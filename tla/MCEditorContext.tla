---------------------------- MODULE MCEditorContext ----------------------------
EXTENDS EditorContext

MCTime == {0}
MCSyntaxes == {"Code", "Comment", "String"}
=============================================================================
