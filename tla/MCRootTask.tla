------------------------------ MODULE MCRootTask ------------------------------
EXTENDS RootTask

MCMsgs == Names \X (0..1)
MCZeroMsg == Message("m0")
=============================================================================
