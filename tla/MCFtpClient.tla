------------------------------- MODULE MCFtpClient -------------------------------
EXTENDS FtpClient

=================================================================================
