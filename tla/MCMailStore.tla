----------------------------- MODULE MCMailStore -----------------------------
EXTENDS MailStore
=============================================================================
