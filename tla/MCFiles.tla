------------------------------ MODULE MCFiles ------------------------------
EXTENDS FileService

MCPaths == {<<>>, <<"p">>, <<"p", "h">>, <<"a">>, <<"p", "h", "a">>}
=============================================================================
